---- MODULE Spec2Model ----
(***************************************************************************)
(* Task queue, queue worker and result dispatcher of the card-compare bot  *)
(* (src/main.py, src/bot/queue.py, src/database/queries.py).               *)
(* Further: the login flow of the auth service with the code handler       *)
(* (src/scraper/auth_service.py, src/bot/handlers/auth_code.py) and the     *)
(* session store (src/scraper/state_storage.py), each under its own         *)
(* specification.                                                           *)
(*                                                                         *)
(* One asyncio event loop hosts the producers (chat handlers), the queue   *)
(* worker, the result processor and shutdown().  A coroutine runs without  *)
(* interruption between two suspension points, so every action below is    *)
(* the code between two awaits that really suspend (queue get, sleep, a    *)
(* Telegram call).  The Supabase client is the synchronous one, so the     *)
(* database helpers of queries.py never suspend.                           *)
(***************************************************************************)
EXTENDS Integers, Sequences, FiniteSets, TLC

\* ------------------------------------------------------------------ bounds
MaxTasks == 2        \* tasks ever created
MaxBalance == 2      \* largest stored balance a payment may produce

MaxMsgs == 3         \* code messages the bot receives
MaxSkew == 1         \* cookie expiries lie within MaxSkew seconds of the margin
MaxPieces == 6       \* comma-separated pieces of a submitted text
MaxTicks == 2        \* intervals the periodic saver sleeps through
MaxCalls == 2        \* deliveries of the webhook for one invoice
MaxExports == 3      \* exports triggered, and completed exports listed
Users == {1}         \* users of the bot (one chat)
TaskIds == 1..MaxTasks

\* ------------------------------------------------------- values of the code
None == "None"
StaticPath == "storage/test_report.txt"        \* process_report_mock's file
StaticContent == "test_report"
Absent == "absent"
NoneTypeError == "'NoneType' object has no attribute 'compare_cards'"

\* Application.wb_client: set to None by __init__; the construction in
\* setup() is commented out, so it is None for the whole run.
wb_client == None

VARIABLES
    task_queue,      \* ReportQueue._task_queue
    result_queue,    \* ReportQueue._result_queue
    unfinished,      \* _task_queue's unfinished-task counter (put / task_done)
    next_id,         \* number of tasks created so far (ids are fresh uuid4s)
    shutdown_flag,   \* Application._shutdown
    spc,             \* position of shutdown()
    wpc,             \* position of queue_worker
    wtask,           \* queue_worker's local `task`
    dpc,             \* position of result_processor
    dres,            \* result_processor's local `result`
    dbalance,        \* result_processor's local `balance`
    balance,         \* users.reports_balance in the database
    wb_use_mock,     \* feature flag IS_WB_USE_MOCK in the database
    fs,              \* the artifact files on disk: path -> content or Absent
    task_log,        \* history: task ids in the order add_task accepted them
    taken_log,       \* history: task ids in the order the worker dequeued them
    result_log,      \* history: Results in the order add_result accepted them
    mode_log,        \* history: task id -> pipeline the worker chose for it
    last,            \* history: what the dispatcher did for the Result it took last
    env_fault,       \* history: an external call (database, unlink, delete_message) failed
    auth,            \* WBAuthService, its login flow and the code handler
    store,           \* StateStorage: the session file, the clock, the last load
    sub,             \* process_articles: one message in waiting_for_articles
    pipe,            \* process_report_real: the stage it is in, the stages it began
    sav,             \* periodic_state_saver, the session file's writers, the end of shutdown()
    pay,             \* one payment row and the complete_payment calls for its invoice
    dl               \* download_documents: the list, the downloads, the merge

vars == << task_queue, result_queue, unfinished, next_id, shutdown_flag, spc,
           wpc, wtask, dpc, dres, dbalance, balance, wb_use_mock, fs,
           task_log, taken_log, result_log, mode_log, last,
           env_fault, auth, store, sub, pipe, sav, pay, dl >>

qvars == << task_queue, result_queue, unfinished, next_id >>
wvars == << wpc, wtask >>
dvars == << dpc, dres, dbalance >>
dbvars == << balance, wb_use_mock >>
whist == << task_log, taken_log, result_log, mode_log >>
aux == << sub, pipe, sav, pay, dl >>
others == << auth, store, aux >>

\* ------------------------------------------------------ bot/queue.py records
\* ReportTask.create: a task with a fresh id.
ReportTask_create(id, user_id, chat_id, loading_message_id) ==
    [ task_id |-> id, user_id |-> user_id, chat_id |-> chat_id,
      loading_message_id |-> loading_message_id ]

\* ReportResult(...): file_path and error default to None.
ReportResult(task_id, user_id, chat_id, success, file_path, error, loading_message_id) ==
    [ task_id |-> task_id, user_id |-> user_id, chat_id |-> chat_id,
      success |-> success, file_path |-> file_path, error |-> error,
      loading_message_id |-> loading_message_id ]

NoTask == ReportTask_create(0, 0, 0, 0)
NoResult == ReportResult(0, 0, 0, FALSE, None, None, 0)

\* ReportQueue: two FIFO asyncio queues.  put appends on the right, get
\* takes from the left: `item` is what get returns, `rest` what stays queued.
add_task(q, task) == Append(q, task)
\* Faulty variant: get takes the newest task.
get_task_Lifo(q) == [item |-> q[Len(q)], rest |-> SubSeq(q, 1, Len(q) - 1)]
get_task(q) == [item |-> Head(q), rest |-> Tail(q)]
\* Faulty variant: a failure Result is not put on the queue.
add_result_DropsFailure(q, result) == IF result.success THEN Append(q, result) ELSE q
\* Faulty variant: the Result is put on the queue twice.
add_result_Twice(q, result) == Append(Append(q, result), result)
add_result(q, result) == Append(q, result)
get_result(q) == [item |-> Head(q), rest |-> Tail(q)]
qsize(q) == Len(q)

\* What a put added to queue `before`, as a sequence (history only).
Added(before, after) == SubSeq(after, Len(before) + 1, Len(after))

\* --------------------------------------------------- database/queries.py
\* get_feature_flag("IS_WB_USE_MOCK", default=True): the stored flag, or the
\* default when the query raises.
get_wb_use_mock(flag, db_ok) == IF db_ok THEN flag ELSE TRUE

\* update_balance: read the user, add, clamp at 0, write; an exception of
\* either query is logged and swallowed (returns None, nothing written).
update_balance(bal, user_id, amount, db_ok) ==
    IF ~db_ok THEN bal
    ELSE [bal EXCEPT ![user_id] = IF @ + amount < 0 THEN 0 ELSE @ + amount]

\* check_balance: get_user returns None on an exception, and then 0.
check_balance(bal, user_id, db_ok) == IF db_ok THEN bal[user_id] ELSE 0

\* ----------------------------------------------------------- the pipelines
\* process_report_mock: two sleeps, then the static file's path.
process_report_mock == [raised |-> FALSE, value |-> StaticPath]

\* process_report_real: its first statement calls self.wb_client.compare_cards;
\* wb_client is None, so it raises AttributeError before any stage runs.
process_report_real ==
    IF wb_client = None THEN [raised |-> TRUE, value |-> NoneTypeError]
    ELSE [raised |-> FALSE, value |-> "merged.zip"]

\* process_report_real with a connected WBClient: the three awaited calls,
\* in the order of lines 55, 59 and 63, and the exception each may raise.
Stages == <<"compare_cards", "process_filters", "download_documents">>
StageError(stage) ==
    [compare_cards |-> "compare_cards raised",
     process_filters |-> "process_filters raised",
     download_documents |-> "download_documents raised"][stage]

\* The pipeline is not running: `stage` is the index of the awaited call (0:
\* none), `trace` the calls begun for the job, `raises` those of them that
\* raised, `outcome` how process_report_real ended.
NoPipe ==
    [stage |-> 0, trace |-> << >>, raises |-> << >>,
     outcome |-> [raised |-> FALSE, value |-> None]]

\* process_report_real up to its first suspension: without a client line 55
\* raises AttributeError, with one compare_cards is awaited.
pipe_start(client) ==
    IF ~client
    THEN [NoPipe EXCEPT !.outcome = [raised |-> TRUE, value |-> NoneTypeError]]
    ELSE [NoPipe EXCEPT !.stage = 1, !.trace = <<Stages[1]>>]

\* Faulty variant: the call after a failed one is made all the same.
stage_returns_GoesOn(p, ok) ==
    LET q == [p EXCEPT !.raises = IF ok THEN @ ELSE Append(@, Stages[p.stage])]
    IN IF p.stage = Len(Stages)
       THEN [q EXCEPT !.stage = 0,
                      !.outcome = IF ok THEN [raised |-> FALSE, value |-> "merged.zip"]
                                  ELSE [raised |-> TRUE, value |-> StageError(Stages[p.stage])]]
       ELSE [q EXCEPT !.stage = @ + 1, !.trace = Append(@, Stages[p.stage + 1])]

\* The awaited call returns (ok) or raises: the exception leaves
\* process_report_real; a return leads to the next call, and the last
\* one's value is returned.
stage_returns(p, ok) ==
    IF ~ok
    THEN [p EXCEPT !.stage = 0,
                   !.raises = Append(@, Stages[p.stage]),
                   !.outcome = [raised |-> TRUE, value |-> StageError(Stages[p.stage])]]
    ELSE IF p.stage = Len(Stages)
    THEN [p EXCEPT !.stage = 0, !.outcome = [raised |-> FALSE, value |-> "merged.zip"]]
    ELSE [p EXCEPT !.stage = @ + 1, !.trace = Append(@, Stages[p.stage + 1])]

\* queue_worker, lines 190-211: the Result built from the pipeline's outcome.
WorkerResult(task, outcome) ==
    IF outcome.raised
    THEN ReportResult(task.task_id, task.user_id, task.chat_id, FALSE,
                      None, outcome.value, task.loading_message_id)
    ELSE ReportResult(task.task_id, task.user_id, task.chat_id, TRUE,
                      outcome.value, None, task.loading_message_id)

\* What the dispatcher has done for the Result of task `id`: nothing yet.
NoDispatch(id) ==
    [ task_id |-> id,        \* the Result's task
      start |-> 0,           \* stored balance when the Result was taken
      credited |-> 0,        \* units payments credited while it was dispatched
      sticker |-> "none",    \* the loading sticker: "shown", "deleted", "kept"
      missing |-> FALSE,     \* the artifact file was found missing
      document |-> "none",   \* content of the document sent
      charged |-> FALSE,     \* update_balance(user, -1) was called
      before |-> 0,          \* stored balance right before that call
      after |-> 0,           \* stored balance right after it
      message |-> "none",    \* final text message: "balance" or "error"
      reported |-> 0,        \* the balance that message states
      text |-> None,         \* the error text that message carries
      final |-> 0,           \* stored balance when the dispatcher was through
      done |-> FALSE ]       \* the dispatcher is through with the Result

\* ----------------------------------------------- scraper/state_storage.py
safety_margin == 3600
max_age == 90 * 24 * 3600

\* int(time.time()) when load_state runs
Nows == {max_age + safety_margin}

\* dict.get(key, default)
DictGet(d, key, default) == IF key \in DOMAIN d THEN d[key] ELSE default

\* A refresh token.  parts is the number of dot-separated parts (0: the empty
\* string), decodes says whether the payload is base64 of a JSON object, iat
\* is the payload's 'iat' (0: the payload has none).
Token(parts, decodes, iat) == [parts |-> parts, decodes |-> decodes, iat |-> iat]
EmptyToken == Token(0, FALSE, 0)

Tokens(now) ==
    { EmptyToken, Token(2, FALSE, 0), Token(3, FALSE, 0), Token(3, TRUE, 0),
      Token(3, TRUE, now - max_age), Token(3, TRUE, now - max_age - 1) }

\* A cookie of the stored session, with or without an 'expires' field.
Cookie(name, expires, value) == [name |-> name, expires |-> expires, value |-> value]
SessionCookie(name, value) == [name |-> name, value |-> value]

\* Expiry epochs around the margin, and the values that mean "no expiry".
Expiries(now) == {-1, 0} \cup {now + safety_margin + d : d \in -MaxSkew..MaxSkew}

CookiesNamed(name, now, values) ==
    {Cookie(name, e, v) : e \in Expiries(now), v \in values}
        \cup {SessionCookie(name, v) : v \in values}

\* The session file: missing, not JSON, a JSON array, a JSON object whose
\* 'cookies' is not a list of objects, or a JSON object that may hold a
\* 'cookies' list.
File(kind, keys, cookies) == [kind |-> kind, keys |-> keys, cookies |-> cookies]
FileMissing == File("missing", {}, << >>)
FileCorrupt == File("corrupt", {}, << >>)
FileArray == File("array", {}, << >>)
FileBadShape == File("badshape", {"cookies"}, << >>)

\* A cookie the validation does not look for.
OtherCookie == SessionCookie("session", EmptyToken)

\* The files of StoredFiles with one more cookie, at either end of the list.
WithOther(files) ==
    {File(f.kind, f.keys, <<OtherCookie>> \o f.cookies) : f \in files}
        \cup {File(f.kind, f.keys, Append(f.cookies, OtherCookie)) : f \in files}

StoredFiles(now) ==
    {FileMissing, FileCorrupt, FileArray, FileBadShape,
     File("json", {}, << >>), File("json", {"cookies"}, << >>)}
        \cup {File("json", {"cookies"}, <<r>>) : r \in CookiesNamed("wbx-refresh", now, {Token(3, TRUE, 0)})}
        \cup {File("json", {"cookies"}, <<v>>) : v \in CookiesNamed("wbx-validation-key", now, {EmptyToken})}
        \cup WithOther({File("json", {"cookies"}, << >>)})
        \cup WithOther({File("json", {"cookies"}, <<r>>) :
                           r \in CookiesNamed("wbx-refresh", now, {Token(3, TRUE, 0)})})
        \cup WithOther({File("json", {"cookies"}, <<v>>) :
                           v \in CookiesNamed("wbx-validation-key", now, {EmptyToken})})
        \cup WithOther({File("json", {"cookies"}, <<r, v>>) :
                           r \in CookiesNamed("wbx-refresh", now, {Token(3, TRUE, 0)}),
                           v \in CookiesNamed("wbx-validation-key", now, {EmptyToken})})
        \cup {File("json", {"cookies"}, <<r, v>>) :
                 r \in CookiesNamed("wbx-refresh", now, Tokens(now)),
                 v \in CookiesNamed("wbx-validation-key", now, {EmptyToken})}

\* What load_state hands its caller: None, the parsed state, or an exception.
Loaded(some, file) == [some |-> some, file |-> file, raised |-> FALSE]
NoState == Loaded(FALSE, FileMissing)
Raised == [some |-> FALSE, file |-> FileMissing, raised |-> TRUE]

\* Faulty variant: the age of the token is not looked at.
validate_jwt_NoAgeCheck(token, now) ==
    token.parts = 3 /\ token.decodes

\* _validate_jwt: a non-empty token of three parts whose payload decodes and
\* whose 'iat', when positive, is at most 90 days old.
validate_jwt(token, now) ==
    IF token.parts = 0 THEN FALSE
    ELSE IF token.parts # 3 THEN FALSE
    ELSE IF ~token.decodes THEN FALSE
    ELSE IF token.iat > 0 /\ now - token.iat > max_age THEN FALSE
    ELSE TRUE

\* found_cookies[name]: the last cookie of the list with that name
HasCookie(cookies, name) == \E i \in 1..Len(cookies) : cookies[i].name = name
FoundCookie(cookies, name) ==
    cookies[CHOOSE i \in 1..Len(cookies) :
                /\ cookies[i].name = name
                /\ \A j \in 1..Len(cookies) : cookies[j].name = name => j <= i]

\* Lines 77-84: the cookie is expired or will expire within the margin.
CookieExpired(cookie, now) ==
    LET expires == DictGet(cookie, "expires", 0)
    IN expires > 0 /\ now > expires - safety_margin

\* Faulty variant: only the cookies that are present are checked.
is_state_valid_PresentOnly(file, now) ==
    /\ "cookies" \in file.keys
    /\ file.cookies # << >>
    /\ \A name \in {"wbx-refresh", "wbx-validation-key"} :
           HasCookie(file.cookies, name)
               => ~CookieExpired(FoundCookie(file.cookies, name), now)
    /\ HasCookie(file.cookies, "wbx-refresh")
           => validate_jwt(DictGet(FoundCookie(file.cookies, "wbx-refresh"), "value", EmptyToken), now)

\* _is_state_valid
is_state_valid(file, now) ==
    IF file.keys = {} \/ "cookies" \notin file.keys THEN FALSE
    ELSE IF file.cookies = << >> THEN FALSE
    ELSE IF \E name \in {"wbx-refresh", "wbx-validation-key"} :
                \/ ~HasCookie(file.cookies, name)
                \/ CookieExpired(FoundCookie(file.cookies, name), now)
         THEN FALSE
    ELSE validate_jwt(DictGet(FoundCookie(file.cookies, "wbx-refresh"), "value", EmptyToken), now)

\* json.load raises on a file that is not JSON; _is_state_valid raises when
\* 'cookies' cannot be iterated or an entry of it has no get().
ParseRaises(file) == file.kind = "corrupt"
ValidationRaises(file) == file.kind = "badshape"

\* Faulty variant: the exceptions of the try block reach the caller.
load_state_NoExcept(file, now) ==
    IF file.kind = "missing" THEN NoState
    ELSE IF ParseRaises(file) \/ ValidationRaises(file) THEN Raised
    ELSE IF ~is_state_valid(file, now) THEN NoState
    ELSE Loaded(TRUE, file)

\* load_state: None for a missing file, a file whose parsing or validation
\* raises (the exception is swallowed) or an invalid state; otherwise the
\* state.
load_state(file, now) ==
    IF file.kind = "missing" THEN NoState
    ELSE IF ParseRaises(file) THEN NoState
    ELSE IF ValidationRaises(file) THEN NoState
    ELSE IF ~is_state_valid(file, now) THEN NoState
    ELSE Loaded(TRUE, file)

\* WBClient.connect, lines 68-77: the context is built from the loaded state
\* when there is one, and fresh otherwise.
new_context(loaded) == IF loaded.some THEN "storage_state" ELSE "fresh"

\* The store before any call: nothing stored, nothing loaded, no context.
NoStore ==
    [file |-> FileMissing, now |-> 0, phase |-> "unused", loaded |-> NoState,
     context |-> "none"]

\* ------------------------ scraper/auth_service.py, bot/handlers/auth_code.py
\* settings.admin_telegram_id, and some other sender
admin_telegram_id == "admin"
Senders == {admin_telegram_id, "stranger"}

\* Texts the handler's filter ^\d{4,6}$ lets through, as character sequences
Codes == { <<"1", "2", "3", "4">>, <<"5", "6", "7", "8", "9", "0">> }
NoCode == << >>
\* What the console prompt of the fallback may return
ConsoleInputs == Codes \cup { << >>, <<" ", "1", "2", "3", "4", " ">> }

\* str.strip()
RECURSIVE LStrip(_)
LStrip(text) == IF text # << >> /\ Head(text) = " " THEN LStrip(Tail(text)) ELSE text
RECURSIVE RStrip(_)
RStrip(text) ==
    IF text # << >> /\ text[Len(text)] = " "
    THEN RStrip(SubSeq(text, 1, Len(text) - 1)) ELSE text
Strip(text) == RStrip(LStrip(text))

\* The exceptions the login flow ends with
TimeoutError == "Auth code timeout - no response from admin"
SendError == "Cannot send auth code request to admin"
EmptyCodeError == "Empty code received"
FormError == "Timeout waiting for the login form"
IncompleteError == "Authorization incomplete - cannot reach target page"

\* asyncio.Future: "pending", "done" (set_result) or "cancelled"
Future(state, result) == [state |-> state, result |-> result]

\* The auth service, its one login flow and the code handler, before
\* anything ran.  client: app.wb_client is a connected WBClient; bot: the
\* service was given a bot and an admin id.
NoAuth ==
    [ client |-> FALSE,
      bot |-> FALSE,
      pc |-> "idle",          \* position of ensure_wb_authorized
      futures |-> << >>,      \* every Future _request_code_via_telegram created
      pending |-> 0,          \* _pending_code_future: index in futures, 0 = None
      code |-> NoCode,        \* the flow's local `code`
      url |-> "start",        \* page.url: "target", "auth" or "other"
      saved |-> << >>,        \* history: page.url at each save_state
      error |-> None,         \* the exception the flow ended with
      msgs |-> 0,             \* history: code messages handled
      sender |-> None,        \* history: sender of the last one
      text |-> NoCode,        \* history: its text
      reply |-> "none",       \* history: the handler's answer to it
      accepted |-> << >>,     \* history: codes given to set_result
      raised |-> FALSE ]      \* history: set_result was called on a Future that is done

\* pending_code and not pending_code.done()
HasPendingRequest(a) == a.pending # 0 /\ a.futures[a.pending].state = "pending"

\* Faulty variant: a code that finds no pending request is kept in the slot
\* as a resolved Future.
handle_auth_code_StashesCode(a, sender, text) ==
    LET seen == [a EXCEPT !.msgs = @ + 1, !.sender = sender, !.text = text]
    IN IF sender # admin_telegram_id THEN [seen EXCEPT !.reply = "none"]
       ELSE IF ~a.client THEN [seen EXCEPT !.reply = "no_client"]
       ELSE IF ~HasPendingRequest(a)
       THEN [seen EXCEPT !.futures = Append(@, Future("done", Strip(text))),
                         !.pending = Len(a.futures) + 1,
                         !.reply = "no_request"]
       ELSE [seen EXCEPT !.futures[a.pending] = Future("done", Strip(text)),
                         !.accepted = Append(@, Strip(text)),
                         !.reply = "accepted"]

\* Faulty variant: a second code replaces the result of a resolved Future.
handle_auth_code_Overwrites(a, sender, text) ==
    LET seen == [a EXCEPT !.msgs = @ + 1, !.sender = sender, !.text = text]
    IN IF sender # admin_telegram_id THEN [seen EXCEPT !.reply = "none"]
       ELSE IF ~a.client THEN [seen EXCEPT !.reply = "no_client"]
       ELSE IF a.pending = 0 THEN [seen EXCEPT !.reply = "no_request"]
       ELSE [seen EXCEPT !.futures[a.pending] = Future("done", Strip(text)),
                         !.accepted = Append(@, Strip(text)),
                         !.raised = (a.futures[a.pending].state # "pending"),
                         !.reply = "accepted"]

\* Faulty variant: the sender is not checked.
handle_auth_code_AnySender(a, sender, text) ==
    LET seen == [a EXCEPT !.msgs = @ + 1, !.sender = sender, !.text = text]
    IN IF ~a.client THEN [seen EXCEPT !.reply = "no_client"]
       ELSE IF ~HasPendingRequest(a) THEN [seen EXCEPT !.reply = "no_request"]
       ELSE [seen EXCEPT !.futures[a.pending] = Future("done", Strip(text)),
                         !.accepted = Append(@, Strip(text)),
                         !.reply = "accepted"]

\* handle_auth_code up to its message.answer: a non-admin sender is ignored;
\* without a WBClient, or without an unresolved Future in the slot, the
\* handler only answers; otherwise set_result(message.text.strip()).
handle_auth_code(a, sender, text) ==
    LET seen == [a EXCEPT !.msgs = @ + 1, !.sender = sender, !.text = text]
    IN IF sender # admin_telegram_id THEN [seen EXCEPT !.reply = "none"]
       ELSE IF ~a.client THEN [seen EXCEPT !.reply = "no_client"]
       ELSE IF ~HasPendingRequest(a) THEN [seen EXCEPT !.reply = "no_request"]
       ELSE [seen EXCEPT !.futures[a.pending] = Future("done", Strip(text)),
                         !.accepted = Append(@, Strip(text)),
                         !.reply = "accepted"]

\* _request_code_via_telegram, line 250: a new Future goes into the slot and
\* send_message to the admin starts.
create_future(a) ==
    [a EXCEPT !.futures = Append(@, Future("pending", NoCode)),
              !.pending = Len(a.futures) + 1,
              !.pc = "notify",
              !.url = "auth"]

\* Faulty variant: the login flow can be started again while it waits for
\* the code.
CanStartFlow_Again(a) == a.pc \in {"idle", "wait_code"}

\* start() creates the one auth_check_task; nothing else calls
\* ensure_authorized.
CanStartFlow(a) == a.pc = "idle"

\* ensure_wb_authorized up to its first suspension that matters: without a
\* WBClient it only logs; else ensure_authorized navigates, and when
\* check_needs_authorization says so authorize() submits the phone number
\* (a wait that times out raises) and asks for the code, through the bot or
\* at the console.
ensure_wb_authorized(a, needs_auth, form_ok) ==
    IF ~a.client THEN [a EXCEPT !.pc = "done"]
    ELSE IF ~needs_auth THEN [a EXCEPT !.pc = "done", !.url = "target"]
    ELSE IF ~form_ok THEN [a EXCEPT !.pc = "failed", !.url = "auth", !.error = FormError]
    ELSE IF a.bot THEN create_future(a)
    ELSE [a EXCEPT !.pc = "console", !.url = "auth"]

\* authorize(), lines 154-186.  url1 is page.url once the code is entered,
\* url2 page.url after the retry goto.  On the target: save.  On an auth
\* page: the error is logged and nothing is raised, so the flow goes on to
\* save_state.  Elsewhere: goto the target and raise unless that got there.
authorize_verify(a, url1, url2) ==
    IF url1 = "target"
    THEN [a EXCEPT !.url = url1, !.saved = Append(@, url1), !.pc = "done"]
    ELSE IF url1 = "auth"
    THEN [a EXCEPT !.url = url1, !.saved = Append(@, url1), !.pc = "done"]
    ELSE IF url2 # "target"
    THEN [a EXCEPT !.url = url2, !.pc = "failed", !.error = IncompleteError]
    ELSE [a EXCEPT !.url = url2, !.saved = Append(@, url2), !.pc = "done"]

\* ------------------------------------------------------------------- Init
\* The state once start() has created the worker and the result processor
\* and both have entered their first wait_for.
\* ------------------------------ periodic_state_saver and the session file
\* The browser context has completed login: ensure_authorized has returned
\* with the page on the target resource.
Authenticated(a) == a.pc = "done" /\ a.url = "target"

\* What is known of the context whose storage_state is taken: the check has
\* not run yet (or was cancelled), login is complete, or the check found
\* that login is needed and login has not been completed.
ContextStatus(a) ==
    IF Authenticated(a) THEN "authenticated"
    ELSE IF a.pc \in {"idle", "cancelled"} THEN "unchecked"
    ELSE "unauthenticated"

\* One write of the session file: who wrote, the status of the context
\* whose storage_state was written, and what the file held before.
Write(writer, status, over) == [writer |-> writer, status |-> status, over |-> over]

\* What the file holds after a write: the state of an unchecked context is
\* what connect() loaded into it.
Stored(status, over) ==
    IF status = "authenticated" THEN "valid"
    ELSE IF status = "unchecked" /\ over = "valid" THEN "valid"
    ELSE "unauthenticated"

\* Nothing has run: no client, no file, the saver asleep, shutdown() not at
\* its end.
NoSaver ==
    [ pc |-> "sleep",        \* sleep, saving (in storage_state), stopped
      ticks |-> 0,           \* intervals slept through
      snap |-> "unchecked",  \* saving: the context's status at the call
      attempts |-> << >>,    \* history: TRUE for a save that wrote, FALSE for one that raised
      cancelled |-> FALSE,   \* history: the task was cancelled by shutdown()
      browser |-> "none",    \* none, connected, closed
      stored |-> "none",     \* the session file: none, valid, unauthenticated
      writes |-> << >>,      \* history: the writes of the file
      tail |-> "none",       \* shutdown() after its two awaits
      use_mock |-> FALSE,    \* what shutdown() read from get_wb_use_mock
      finals |-> << >> ]     \* history: the final saves, TRUE for one that wrote

\* `while not self._shutdown`, evaluated when an iteration ends
SaverLoop(flag) == IF flag THEN "stopped" ELSE "sleep"

\* Faulty variant: a save that raised ends the saver.
SaverAfterSave_FailureEnds(ok, flag) == IF ok THEN SaverLoop(flag) ELSE "stopped"

\* save_current_state catches what storage_state or save_state raises, so
\* the iteration ends the same way whether the save wrote or not.
SaverAfterSave(ok, flag) == SaverLoop(flag)

\* save_state(state) by `writer`, or the exception logged instead
save_current_state(v, writer, status, ok) ==
    IF ok
    THEN [v EXCEPT !.stored = Stored(status, v.stored),
                   !.writes = Append(@, Write(writer, status, v.stored))]
    ELSE v

\* ------------------------------------------------- bot/handlers/reports.py
\* The pieces message.text falls into at its commas.
Digits == {"0", "1", "2", "3", "4", "5", "6", "7", "8", "9"}
Pieces == { <<" ", "1", "2", " ">>, <<"x">>, << >> }
Texts == UNION {[1..n -> Pieces] : n \in 1..MaxPieces}

\* int(a) of a stripped, non-empty piece: ValueError unless all are digits
IsDigits(a) == a # << >> /\ \A i \in 1..Len(a) : a[i] \in Digits
DigitValue(c) == CHOOSE n \in 0..9 : <<"0", "1", "2", "3", "4", "5", "6", "7", "8", "9">>[n + 1] = c
RECURSIVE ToInt(_)
ToInt(a) == IF a = << >> THEN 0 ELSE 10 * ToInt(SubSeq(a, 1, Len(a) - 1)) + DigitValue(a[Len(a)])

\* (message.text or "").strip(): empty when the text has no comma and only
\* blanks
StrippedIsEmpty(text) == Len(text) = 1 /\ Strip(text[1]) = << >>

\* Lines 98-100: the pieces are stripped, the empty ones dropped and the
\* others converted; any ValueError rejects the whole message.
parse_articles(text) ==
    LET articles_str == [i \in 1..Len(text) |-> Strip(text[i])]
        kept == SelectSeq(articles_str, LAMBDA a : a # << >>)
    IN IF \E i \in 1..Len(kept) : ~IsDigits(kept[i])
       THEN [raised |-> TRUE, value |-> << >>]
       ELSE [raised |-> FALSE, value |-> [i \in 1..Len(kept) |-> ToInt(kept[i])]]

\* Faulty variant: no upper limit on the number of articles.
check_articles_NoUpperLimit(text) ==
    IF StrippedIsEmpty(text) THEN "no_articles"
    ELSE IF parse_articles(text).raised THEN "bad_format"
    ELSE IF Len(parse_articles(text).value) < 2 THEN "too_few"
    ELSE "queued"

\* Lines 87-123: the answer the text gets, "queued" when it passes.
check_articles(text) ==
    IF StrippedIsEmpty(text) THEN "no_articles"
    ELSE IF parse_articles(text).raised THEN "bad_format"
    ELSE IF Len(parse_articles(text).value) < 2 THEN "too_few"
    ELSE IF Len(parse_articles(text).value) > 5 THEN "too_many"
    ELSE "queued"

\* The keyword arguments line 152-158 passes to ReportTask.create, and the
\* parameters queue.py:21 declares.
CreateKeywords == {"user_id", "chat_id", "articles", "report_id", "loading_message_id"}
CreateParameters == {"user_id", "chat_id", "articles", "loading_message_id"}
CreateTypeError == "create() got an unexpected keyword argument 'report_id'"

\* No message is being handled.
NoSub ==
    [ pc |-> "idle",         \* idle, received, acked, done
      user |-> 0,
      text |-> << >>,        \* message.text, split at its commas
      fsm |-> "waiting_for_articles",
      reply |-> "none",      \* what message.answer sent
      articles |-> << >>,
      queue_size |-> 0,      \* the position the acknowledgment states
      report |-> FALSE,      \* create_report stored a record
      sticker |-> FALSE,     \* send_loading_sticker sent one
      enqueued |-> FALSE,    \* add_task was awaited
      raised |-> None ]      \* the exception the handler ended with

\* ------------------------------------------------ payment/payment_service.py
\* The deliveries of the payment.succeeded webhook for one invoice
Calls == 1..MaxCalls

\* One complete_payment call: where it is, the status on the Payment it read
\* at its start, what it returned and whether it ran update_balance
NoCall == [pc |-> "idle", seen |-> "none", ret |-> "none", credited |-> FALSE]

NoPay ==
    [ bot |-> FALSE,          \* PaymentService.bot is set
      user_id |-> 0,          \* payments.user_id of the invoice's row
      status |-> "pending",   \* payments.status of that row
      amount |-> 0,           \* prices.reports_amount of its option
      start |-> 0,            \* history: the user's balance before any webhook
      calls |-> [c \in Calls |-> NoCall] ]

\* Lines 211-258 of complete_payment, from the price lookup to the return of
\* its try block.  The queries are synchronous Supabase calls, so nothing
\* else runs between them; `seen` is payment.status of the object read at
\* line 186.  Gives the row's status, the balances and the call afterwards.
complete_payment(p, bal, c, price_ok, status_ok, balance_ok) ==
    LET call == p.calls[c]
        ret(v) == [call EXCEPT !.pc = "done", !.ret = v]
    IN IF ~price_ok THEN [status |-> p.status, bal |-> bal, call |-> ret("false")]
       ELSE IF call.seen = "success"
            THEN [status |-> p.status, bal |-> bal, call |-> ret("true")]
       ELSE IF ~status_ok THEN [status |-> p.status, bal |-> bal, call |-> ret("false")]
       ELSE IF ~balance_ok THEN [status |-> "success", bal |-> bal, call |-> ret("false")]
       ELSE [status |-> "success",
             bal |-> update_balance(bal, p.user_id, p.amount, TRUE),
             call |-> [ret("true") EXCEPT !.credited = TRUE]]

\* ------------------------------------------- scraper_service.py, the files
\* Text is a sequence of one-character strings.  str(n) of a natural number:
RECURSIVE ToText(_)
ToText(n) ==
    LET d == <<"0", "1", "2", "3", "4", "5", "6", "7", "8", "9">>[(n % 10) + 1]
    IN IF n < 10 THEN <<d>> ELSE Append(ToText(n \div 10), d)

\* Positions of the character c in s
Positions(s, c) == {i \in 1..Len(s) : s[i] = c}
Highest(S) == CHOOSE i \in S : \A j \in S : j <= i
Lowest(S) == CHOOSE i \in S : \A j \in S : i <= j

\* os.path.basename: what follows the last separator
basename(path) ==
    IF Positions(path, "/") = {} THEN path
    ELSE SubSeq(path, Highest(Positions(path, "/")) + 1, Len(path))

\* Faulty variant: the name is cut at its first dot.
splitext_FirstDot(name) ==
    IF Positions(name, ".") = {} THEN name
    ELSE SubSeq(name, 1, Lowest(Positions(name, ".")) - 1)

\* os.path.splitext(name)[0] of a name without separators: the name up to
\* its last dot; leading dots do not start an extension
splitext(name) ==
    LET dots == {i \in Positions(name, ".") : \E j \in 1..(i - 1) : name[j] # "."}
    IN IF dots = {} THEN name ELSE SubSeq(name, 1, Highest(dots) - 1)

\* str.startswith
startswith(s, prefix) ==
    Len(prefix) <= Len(s) /\ SubSeq(s, 1, Len(prefix)) = prefix

\* os.path.join(a, b) for a non-empty a without a trailing separator: an
\* absolute b replaces a
path_join(a, b) ==
    IF b # << >> /\ b[1] = "/" THEN b ELSE a \o <<"/">> \o b

\* self._downloads_path, and the names the stage builds from unique_id
downloads_path == <<"d">>
unique_folder(unique_id) == path_join(downloads_path, ToText(unique_id))
merged_zip_path(unique_id) ==
    path_join(downloads_path, ToText(unique_id) \o <<"-", "m", ".", "z">>)

\* The name process_filters typed for an export (line 397), with the
\* extension of the archive the site serves: '<id>-<period>-<segment>.zip'
ExportName(unique_id, period, segment) ==
    ToText(unique_id) \o <<"-">> \o period \o <<"-">> \o segment \o <<".", "z">>

\* Lines 443-447: the folder of one source archive inside the merged one
folder_name(zip_path, unique_id) ==
    LET root == splitext(basename(zip_path))
        prefix == ToText(unique_id) \o <<"-">>
    IN IF startswith(root, prefix)
       THEN SubSeq(root, Len(prefix) + 1, Len(root))
       ELSE root

\* infolist() of a downloaded archive: a directory entry and two files, one
\* of them inside the directory
Infolist == << <<"s", "/">>, <<"r">>, <<"s", "/", "t">> >>
is_dir(member) == member # << >> /\ member[Len(member)] = "/"

\* Lines 453-467 for one source archive: every entry that is not a
\* directory is written under the folder with the data read from the source
MergedFrom(zip_path, unique_id) ==
    LET files == SelectSeq(Infolist, LAMBDA m : ~is_dir(m))
    IN [i \in 1..Len(files) |->
           [name |-> path_join(folder_name(zip_path, unique_id), files[i]),
            data |-> [source |-> zip_path, member |-> files[i]]]]

\* Lines 438-471: the entries of the merged archive, source by source
RECURSIVE merge_zip_archives(_, _)
merge_zip_archives(zip_files, unique_id) ==
    IF zip_files = << >> THEN << >>
    ELSE MergedFrom(Head(zip_files), unique_id)
             \o merge_zip_archives(Tail(zip_files), unique_id)

\* Faulty variant: as many downloads as exports were triggered.
files_to_download_Expected(buttons_count, expected_count) == expected_count

\* Line 535: min(buttons_count, expected_count)
files_to_download(buttons_count, expected_count) ==
    IF buttons_count <= expected_count THEN buttons_count ELSE expected_count

NoFilesError == "No files were downloaded"
ListTimeout == "Timeout"

NoDl ==
    [ pc |-> "none",            \* position of download_documents
      unique_id |-> 0,
      expected_count |-> 0,
      buttons_count |-> 0,      \* completed exports the list shows
      idx |-> 0,                \* the loop's index
      outcomes |-> << >>,       \* history: each attempt saved a file or raised
      sources |-> << >>,        \* history: period and segment of each saved file
      downloaded_files |-> << >>,
      folder |-> FALSE,         \* the unique folder exists
      files |-> {},             \* the files in it
      left |-> {},              \* history: sources os.unlink could not delete
      merged |-> << >>,         \* the entries of the merged archive
      result |-> << >>,         \* the path returned
      error |-> None ]          \* the exception raised

QueueInit(files) ==
    /\ task_queue = << >>
    /\ result_queue = << >>
    /\ unfinished = 0
    /\ next_id = 0
    /\ shutdown_flag = FALSE
    /\ spc = "running"
    /\ wpc = "get_task"
    /\ wtask = NoTask
    /\ dpc = "get_result"
    /\ dres = NoResult
    /\ dbalance = 0
    /\ balance \in [Users -> 0..1]
    /\ wb_use_mock \in BOOLEAN
    /\ fs \in files
    /\ task_log = << >>
    /\ taken_log = << >>
    /\ result_log = << >>
    /\ mode_log = [t \in TaskIds |-> "none"]
    /\ last = NoDispatch(0)
    /\ env_fault = FALSE
    /\ pipe = NoPipe

\* The static file of the mock pipeline is in place; no WBClient is built
\* (wb_client is None), so there is no auth service and no session store.
Init ==
    /\ QueueInit({[p \in {StaticPath} |-> StaticContent]})
    /\ auth = NoAuth
    /\ store = NoStore
    /\ sav = NoSaver
    /\ pay = NoPay
    /\ dl = NoDl
    /\ sub = NoSub

\* ------------------------------------------------------------- producers
\* A task is put on the queue the way process_articles means to: the user's
\* balance was positive when the handler started; the loading sticker may not
\* have been sent, and then loading_message_id is None, written 0.  The task
\* is built with the arguments ReportTask.create declares; the handler as it
\* is written is SubCheck and SubEnqueue below.
SubmitTask(user_id, with_sticker) ==
    /\ ~shutdown_flag
    /\ next_id < MaxTasks
    /\ balance[user_id] > 0
    /\ LET id == next_id + 1
           task == ReportTask_create(id, user_id, user_id,
                                     IF with_sticker THEN id ELSE 0)
       IN /\ task_queue' = add_task(task_queue, task)
          /\ unfinished' = unfinished + 1
          /\ next_id' = id
          /\ task_log' = task_log \o
                  [i \in 1..Len(Added(task_queue, task_queue')) |->
                      Added(task_queue, task_queue')[i].task_id]
    /\ UNCHANGED << others, result_queue, shutdown_flag, spc, wvars, dvars, dbvars, fs,
                    taken_log, result_log, mode_log, last, env_fault >>

\* ----------------------------------------------------------- queue_worker
\* `while not self._shutdown`, evaluated when an iteration ends: the worker
\* leaves the loop or suspends in wait_for(get_task(), 10.0) again.
WorkerLoop(flag) == IF flag THEN "stopped" ELSE "get_task"

\* Faulty variant: a pipeline exception ends the worker task.
AfterJob_ExceptionEndsLoop(outcome, flag) ==
    IF outcome.raised THEN "stopped" ELSE WorkerLoop(flag)

\* Where the worker goes once the job's Result is built: both the normal
\* path and the handler of line 202 fall through to add_result, task_done
\* and the next iteration of the loop.
AfterJob(outcome, flag) == WorkerLoop(flag)

\* The pipeline has ended (returned or raised): the worker builds the
\* Result, puts it on the result queue and calls task_done.
WorkerFinish(task, outcome) ==
    /\ result_queue' = add_result(result_queue, WorkerResult(task, outcome))
    /\ result_log' = result_log \o Added(result_queue, result_queue')
    /\ unfinished' = unfinished - 1
    /\ wtask' = NoTask
    /\ wpc' = AfterJob(outcome, shutdown_flag)

\* Faulty variant: a task is taken while the pipeline of another still runs.
WorkerGetTask_WhileBusy(db_ok) ==
    /\ wpc \in {"get_task", "mock"}
    /\ task_queue # << >>
    /\ LET task == get_task(task_queue).item
       IN /\ task_queue' = get_task(task_queue).rest
          /\ taken_log' = Append(taken_log, task.task_id)
          /\ mode_log' = [mode_log EXCEPT ![task.task_id] = "mock"]
          /\ wtask' = task
          /\ wpc' = "mock"
    /\ env_fault' = (env_fault \/ ~db_ok)
    /\ UNCHANGED << others, result_queue, result_log, unfinished, next_id,
                    shutdown_flag, spc, dvars, dbvars, fs, task_log, last >>

\* wait_for(get_task()) returns a task.  use_mock is read for this job; the
\* mock pipeline suspends in its sleeps, the real one raises at once and the
\* iteration runs to its end.
WorkerGetTask(db_ok) ==
    /\ wpc = "get_task"
    /\ task_queue # << >>
    /\ LET task == get_task(task_queue).item
           use_mock == get_wb_use_mock(wb_use_mock, db_ok)
       IN /\ task_queue' = get_task(task_queue).rest
          /\ taken_log' = Append(taken_log, task.task_id)
          /\ mode_log' = [mode_log EXCEPT ![task.task_id] =
                              IF use_mock THEN "mock" ELSE "real"]
          /\ IF use_mock
             THEN /\ wtask' = task
                  /\ wpc' = "mock"
                  /\ UNCHANGED << result_queue, result_log, unfinished >>
             ELSE WorkerFinish(task, process_report_real)
    /\ env_fault' = (env_fault \/ ~db_ok)
    /\ UNCHANGED << others, next_id, shutdown_flag, spc, dvars, dbvars, fs,
                    task_log, last >>

\* wait_for(...) times out on an empty queue: continue
WorkerTimeout ==
    /\ wpc = "get_task"
    /\ task_queue = << >>
    /\ wpc' = WorkerLoop(shutdown_flag)
    /\ UNCHANGED << others, qvars, shutdown_flag, spc, wtask, dvars, dbvars, fs, whist, last, env_fault >>

\* process_report_mock returns
WorkerMock ==
    /\ wpc = "mock"
    /\ WorkerFinish(wtask, process_report_mock)
    /\ UNCHANGED << others, task_queue, next_id, shutdown_flag, spc, dvars, dbvars, fs, task_log, taken_log, mode_log, last, env_fault >>

\* ------------------------------------------------------- result_processor
\* The Telegram sends (send_document, send_message) are taken to succeed;
\* the calls whose failure the code handles itself (delete_message, unlink,
\* the database helpers) may fail.

\* `while not self._shutdown`, evaluated when an iteration ends
\* Faulty variant: the result processor does not look at the flag.
DispLoop_IgnoresFlag(flag) == "get_result"

DispLoop(flag) == IF flag THEN "stopped" ELSE "get_result"

\* os.path.exists(result.file_path)
FileExists(files, path) == path \in DOMAIN files /\ files[path] # Absent

\* Faulty variant: the FileNotFoundError of a missing file ends the task.
DispBranch_ExceptionEndsLoop(result, record) ==
    IF result.success
    THEN IF ~FileExists(fs, result.file_path)
         THEN /\ dpc' = "stopped"
              /\ last' = [record EXCEPT !.missing = TRUE, !.done = TRUE]
              /\ dres' = NoResult
         ELSE /\ dpc' = "sending"
              /\ last' = record
              /\ dres' = result
    ELSE /\ dpc' = "error_msg"
         /\ last' = record
         /\ dres' = result

\* Lines 252-293 up to the first send.  A success Result whose file is
\* missing raises FileNotFoundError, which the handler of line 295 only logs:
\* the iteration ends.  Otherwise send_document, or for a failure Result
\* send_message with the error text, starts.
DispBranch(result, record) ==
    IF result.success
    THEN IF ~FileExists(fs, result.file_path)
         THEN /\ dpc' = DispLoop(shutdown_flag)
              /\ last' = [record EXCEPT !.missing = TRUE, !.done = TRUE]
              /\ dres' = NoResult
         ELSE /\ dpc' = "sending"
              /\ last' = record
              /\ dres' = result
    ELSE /\ dpc' = "error_msg"
         /\ last' = record
         /\ dres' = result

\* wait_for(get_result()) returns a Result; delete_message starts when the
\* Result names a loading sticker
DispGetResult ==
    /\ dpc = "get_result"
    /\ result_queue # << >>
    /\ LET result == get_result(result_queue).item
           record == [NoDispatch(result.task_id) EXCEPT
                         !.start = balance[result.user_id],
                         !.sticker = IF result.loading_message_id # 0
                                     THEN "shown" ELSE "none"]
       IN /\ result_queue' = get_result(result_queue).rest
          /\ IF result.loading_message_id # 0
             THEN /\ dpc' = "delete"
                  /\ last' = record
                  /\ dres' = result
             ELSE DispBranch(result, record)
    /\ UNCHANGED << others, task_queue, unfinished, next_id, shutdown_flag, spc, wvars,
                    dbalance, dbvars, fs, whist, env_fault >>

\* wait_for(...) times out on an empty queue: continue
DispTimeout ==
    /\ dpc = "get_result"
    /\ result_queue = << >>
    /\ dpc' = DispLoop(shutdown_flag)
    /\ UNCHANGED << others, qvars, shutdown_flag, spc, wvars, dres, dbalance, dbvars, fs, whist, last, env_fault >>

\* Faulty variant: an exception of delete_message is not swallowed and ends
\* the iteration.
DispDelete_FailureSkips(ok) ==
    /\ dpc = "delete"
    /\ IF ok
       THEN DispBranch(dres, [last EXCEPT !.sticker = "deleted"])
       ELSE /\ dpc' = DispLoop(shutdown_flag)
            /\ last' = [last EXCEPT !.sticker = "kept", !.done = TRUE]
            /\ dres' = NoResult
    /\ env_fault' = (env_fault \/ ~ok)
    /\ UNCHANGED << others, qvars, shutdown_flag, spc, wvars, dbalance, dbvars, fs,
                    whist >>

\* bot.delete_message of the loading sticker returns or raises (swallowed)
DispDelete(ok) ==
    /\ dpc = "delete"
    /\ DispBranch(dres, [last EXCEPT !.sticker = IF ok THEN "deleted" ELSE "kept"])
    /\ env_fault' = (env_fault \/ ~ok)
    /\ UNCHANGED << others, qvars, shutdown_flag, spc, wvars, dbalance, dbvars, fs,
                    whist >>

\* os.unlink(result.file_path); its exception is swallowed
Unlink(files, path, ok) == IF ok THEN [files EXCEPT ![path] = Absent] ELSE files

\* send_document returns.  Then, without suspending: unlink the file,
\* update_balance(user, -1), balance = check_balance(user), and send_message
\* with the balance starts.
DispSendDone(unlink_ok, upd_ok, chk_ok) ==
    /\ dpc = "sending"
    /\ LET after == update_balance(balance, dres.user_id, -1, upd_ok)
       IN /\ fs' = Unlink(fs, dres.file_path, unlink_ok)
          /\ balance' = after
          /\ dbalance' = check_balance(after, dres.user_id, chk_ok)
          /\ last' = [last EXCEPT !.document = fs[dres.file_path],
                                  !.charged = TRUE,
                                  !.before = balance[dres.user_id],
                                  !.after = after[dres.user_id]]
    /\ dpc' = "balance_msg"
    /\ env_fault' = (env_fault \/ ~unlink_ok \/ ~upd_ok \/ ~chk_ok)
    /\ UNCHANGED << others, qvars, shutdown_flag, spc, wvars, dres, wb_use_mock, whist >>

\* send_message "Осталось отчетов: <balance>" returns
DispBalanceMsg ==
    /\ dpc = "balance_msg"
    /\ last' = [last EXCEPT !.message = "balance", !.reported = dbalance,
                            !.final = balance[dres.user_id], !.done = TRUE]
    /\ dres' = NoResult
    /\ dbalance' = 0
    /\ dpc' = DispLoop(shutdown_flag)
    /\ UNCHANGED << others, qvars, shutdown_flag, spc, wvars, dbvars, fs,
                    whist, env_fault >>

\* Faulty variant: the failure branch deducts a unit as the success branch does.
DispErrorMsg_Charges ==
    /\ dpc = "error_msg"
    /\ last' = [last EXCEPT !.message = "error", !.text = dres.error,
                            !.final = balance[dres.user_id], !.done = TRUE]
    /\ balance' = update_balance(balance, dres.user_id, -1, TRUE)
    /\ dres' = NoResult
    /\ dpc' = DispLoop(shutdown_flag)
    /\ UNCHANGED << others, qvars, shutdown_flag, spc, wvars, dbalance, wb_use_mock, fs,
                    whist, env_fault >>

\* send_message with result.error and "Баланс не был списан" returns
DispErrorMsg ==
    /\ dpc = "error_msg"
    /\ last' = [last EXCEPT !.message = "error", !.text = dres.error,
                            !.final = balance[dres.user_id], !.done = TRUE]
    /\ dres' = NoResult
    /\ dpc' = DispLoop(shutdown_flag)
    /\ UNCHANGED << others, qvars, shutdown_flag, spc, wvars, dbalance, dbvars, fs,
                    whist, env_fault >>

\* ------------------------------------------------------------ environment
\* A payment completes: complete_payment / process_successful_payment call
\* update_balance(user, reports_amount).
CompletePayment(user_id, amount) ==
    /\ balance[user_id] + amount <= MaxBalance
    /\ balance' = update_balance(balance, user_id, amount, TRUE)
    /\ last' = IF last.task_id # 0 /\ ~last.done
               THEN [last EXCEPT !.credited = @ + amount] ELSE last
    /\ UNCHANGED << others, qvars, shutdown_flag, spc, wvars, dvars, wb_use_mock, fs, whist, env_fault >>

\* The operator changes the IS_WB_USE_MOCK row of feature_flags.
SetUseMock(value) ==
    /\ wb_use_mock # value
    /\ wb_use_mock' = value
    /\ UNCHANGED << others, qvars, shutdown_flag, spc, wvars, dvars, balance, fs, whist, last, env_fault >>

\* --------------------------------------------------------------- shutdown
\* self._shutdown = True, then await self.worker_task
Shutdown ==
    /\ spc = "running"
    /\ shutdown_flag' = TRUE
    /\ spc' = "await_worker"
    /\ UNCHANGED << others, qvars, wvars, dvars, dbvars, fs, whist, last,
                    env_fault >>

\* Faulty variant: shutdown() cancels the worker instead of awaiting it.
ShutdownAwaitWorker_Cancels ==
    /\ spc = "await_worker"
    /\ spc' = "await_processor"
    /\ wpc' = "stopped"
    /\ wtask' = NoTask
    /\ UNCHANGED << others, qvars, shutdown_flag, dvars, dbvars, fs,
                    whist, last, env_fault >>

\* worker_task has ended; await self.result_processor_task
ShutdownAwaitWorker ==
    /\ spc = "await_worker"
    /\ wpc = "stopped"
    /\ spc' = "await_processor"
    /\ UNCHANGED << others, qvars, shutdown_flag, wvars, dvars, dbvars, fs,
                    whist, last, env_fault >>

\* result_processor_task has ended; the rest of shutdown() closes the clients
ShutdownAwaitProcessor ==
    /\ spc = "await_processor"
    /\ dpc = "stopped"
    /\ spc' = "done"
    /\ UNCHANGED << others, qvars, shutdown_flag, wvars, dvars, dbvars, fs,
                    whist, last, env_fault >>

\* ------------------------------------------------------------------- Next
Producer == \E u \in Users, s \in BOOLEAN : SubmitTask(u, s)

Worker ==
    \/ \E db_ok \in BOOLEAN : WorkerGetTask(db_ok)
    \/ WorkerTimeout
    \/ WorkerMock

Dispatcher ==
    \/ DispGetResult
    \/ DispTimeout
    \/ \E ok \in BOOLEAN : DispDelete(ok)
    \/ \E unlink_ok, upd_ok, chk_ok \in BOOLEAN :
          DispSendDone(unlink_ok, upd_ok, chk_ok)
    \/ DispBalanceMsg
    \/ DispErrorMsg

Environment ==
    \/ \E u \in Users, k \in 1..MaxBalance : CompletePayment(u, k)
    \/ \E v \in BOOLEAN : SetUseMock(v)

ShutdownSteps ==
    \/ Shutdown
    \/ ShutdownAwaitWorker
    \/ ShutdownAwaitProcessor

Next == Producer \/ Worker \/ Dispatcher \/ Environment \/ ShutdownSteps

Spec == Init /\ [][Next]_vars

\* The event loop runs every task that is ready: the worker, the dispatcher
\* and shutdown() are scheduled fairly.  Producers, payments and the moment
\* shutdown starts are up to the environment.
FairSpec ==
    /\ Spec
    /\ WF_vars(Worker)
    /\ WF_vars(Dispatcher)
    /\ WF_vars(ShutdownAwaitWorker \/ ShutdownAwaitProcessor)

\* The worker's side of the program alone: the producers, the queue worker,
\* the mock flag and shutdown() up to its wait for the worker.  The result
\* processor and the payments write none of the variables the worker reads
\* (it reads task_queue, wb_use_mock and shutdown_flag), so the worker's
\* behaviours are the same as under FairSpec.
WorkerNext ==
    \/ Producer
    \/ Worker
    \/ \E v \in BOOLEAN : SetUseMock(v)
    \/ Shutdown
    \/ ShutdownAwaitWorker

WorkerFairSpec == Init /\ [][WorkerNext]_vars /\ WF_vars(Worker)

\* The dispatcher's side with its producers: submissions, the queue worker,
\* the result processor and shutdown().  The static file of the mock
\* pipeline may be absent when the process starts (an earlier run delivered
\* and deleted it).  Payments and flag changes are left out: the result
\* processor's control flow reads neither.
DispInit ==
    /\ QueueInit([{StaticPath} -> {StaticContent, Absent}])
    /\ auth = NoAuth
    /\ store = NoStore
    /\ sav = NoSaver
    /\ pay = NoPay
    /\ dl = NoDl
    /\ sub = NoSub

DispNext == Producer \/ Worker \/ Dispatcher \/ ShutdownSteps

DispFairSpec ==
    /\ DispInit /\ [][DispNext]_vars
    /\ WF_vars(Worker)
    /\ WF_vars(Dispatcher)

\* ----------------------------------------------------- the login flow
\* The variables of the queue side
core == << qvars, shutdown_flag, spc, wvars, dvars, dbvars, fs, whist, last, env_fault >>

\* The application with or without a connected WBClient, whose auth service
\* has or has not been given the bot and the admin id.  main.py as it stands
\* builds no WBClient (the lines in setup() are commented out): that is
\* client = FALSE, where the flow only logs and every code is answered with
\* "WBClient not found".  client = TRUE is the auth service as
\* WBClient.connect() builds it, driven by the same task and handler.
AuthInit ==
    /\ QueueInit({[p \in {StaticPath} |-> StaticContent]})
    /\ store = NoStore
    /\ sav = NoSaver
    /\ pay = NoPay
    /\ dl = NoDl
    /\ sub = NoSub
    /\ \E client, bot \in BOOLEAN :
           auth = [NoAuth EXCEPT !.client = client, !.bot = client /\ bot]

\* auth_check_task runs ensure_wb_authorized
AuthStart(needs_auth, form_ok) ==
    /\ CanStartFlow(auth)
    /\ auth' = ensure_wb_authorized(auth, needs_auth, form_ok)
    /\ UNCHANGED << core, store, aux >>

\* send_message to the admin returns, and wait_for(future, 300) starts; or
\* it raises: the slot is cleared and the call raises
AuthNotify(ok) ==
    /\ auth.pc = "notify"
    /\ auth' = IF ok THEN [auth EXCEPT !.pc = "wait_code"]
               ELSE [auth EXCEPT !.pending = 0, !.pc = "failed", !.error = SendError]
    /\ UNCHANGED << core, store, aux >>

\* wait_for returns the Future's result; finally: the slot is cleared
AuthCodeReceived ==
    /\ auth.pc = "wait_code"
    /\ auth.futures[auth.pending].state = "done"
    /\ auth' = [auth EXCEPT !.code = auth.futures[auth.pending].result,
                            !.pending = 0,
                            !.pc = "enter_code"]
    /\ UNCHANGED << core, store, aux >>

\* Faulty variant: the timeout leaves the Future in the slot, unresolved.
AuthTimeout_KeepsSlot ==
    /\ auth.pc = "wait_code"
    /\ auth.futures[auth.pending].state = "pending"
    /\ auth' = [auth EXCEPT !.pc = "failed", !.error = TimeoutError]
    /\ UNCHANGED << core, store, aux >>

\* 300 seconds pass without a code: wait_for cancels the Future, the call
\* raises Exception('Auth code timeout ...'); finally: the slot is cleared
AuthTimeout ==
    /\ auth.pc = "wait_code"
    /\ auth.futures[auth.pending].state = "pending"
    /\ auth' = [auth EXCEPT !.futures[auth.pending] = Future("cancelled", NoCode),
                            !.pending = 0,
                            !.pc = "failed",
                            !.error = TimeoutError]
    /\ UNCHANGED << core, store, aux >>

\* The console prompt of the fallback returns
AuthConsole(text) ==
    /\ auth.pc = "console"
    /\ auth' = [auth EXCEPT !.code = text, !.pc = "enter_code"]
    /\ UNCHANGED << core, store, aux >>

\* authorize() from code.strip() to its end: an empty code raises, a digit
\* input that does not appear raises, else the digits are entered and the
\* page is verified.
AuthEnterCode(digits_ok, url1, url2) ==
    /\ auth.pc = "enter_code"
    /\ LET code == Strip(auth.code)
       IN auth' = IF Len(code) = 0
                  THEN [auth EXCEPT !.code = code, !.pc = "failed", !.error = EmptyCodeError]
                  ELSE IF ~digits_ok
                  THEN [auth EXCEPT !.code = code, !.pc = "failed", !.error = FormError]
                  ELSE authorize_verify([auth EXCEPT !.code = code], url1, url2)
    /\ UNCHANGED << core, store, aux >>

\* shutdown() ends the auth task: wait_for(auth_check_task, 5.0) cancels it
\* where it is suspended.  In the wait for the code the Future is cancelled
\* and the finally clears the slot; in send_message the CancelledError passes
\* the `except Exception` and no finally is around it.
AuthCancel ==
    /\ spc = "done"
    /\ auth.pc \in {"idle", "notify", "wait_code", "console", "enter_code"}
    /\ auth' = IF auth.pc = "wait_code"
               THEN [auth EXCEPT !.futures[auth.pending] =
                                      IF @.state = "pending" THEN Future("cancelled", NoCode) ELSE @,
                                 !.pending = 0,
                                 !.pc = "cancelled"]
               ELSE [auth EXCEPT !.pc = "cancelled"]
    /\ UNCHANGED << core, store, aux >>

\* The bot, polling until shutdown starts, hands a 4-6 digit message to
\* handle_auth_code
HandleAuthCode(sender, text) ==
    /\ spc = "running"
    /\ auth.msgs < MaxMsgs
    /\ auth' = handle_auth_code(auth, sender, text)
    /\ UNCHANGED << core, store, aux >>

AuthFlow ==
    \/ \E needs_auth, form_ok \in BOOLEAN : AuthStart(needs_auth, form_ok)
    \/ \E ok \in BOOLEAN : AuthNotify(ok)
    \/ AuthCodeReceived
    \/ AuthTimeout
    \/ \E text \in ConsoleInputs : AuthConsole(text)
    \/ \E digits_ok \in BOOLEAN, url1, url2 \in {"target", "auth", "other"} :
          AuthEnterCode(digits_ok, url1, url2)
    \/ AuthCancel

AuthNext ==
    \/ AuthFlow
    \/ \E sender \in Senders, text \in Codes : HandleAuthCode(sender, text)
    \/ WorkerTimeout
    \/ DispTimeout
    \/ ShutdownSteps

AuthSpec == AuthInit /\ [][AuthNext]_vars

\* ----------------------------------------------------------- StateStorage
\* The session store on its own: a file is on disk, the clock shows `now`.
StoreInit ==
    /\ QueueInit({[p \in {StaticPath} |-> StaticContent]})
    /\ auth = NoAuth
    /\ sub = NoSub
    /\ sav = NoSaver
    /\ pay = NoPay
    /\ dl = NoDl
    /\ \E now \in Nows : \E file \in StoredFiles(now) :
           store = [file |-> file, now |-> now, phase |-> "stored",
                    loaded |-> NoState, context |-> "none"]

\* load_state()
StoreLoad ==
    /\ store.phase = "stored"
    /\ store' = [store EXCEPT !.loaded = load_state(store.file, store.now),
                              !.phase = "loaded"]
    /\ UNCHANGED << qvars, shutdown_flag, spc, wvars, dvars, dbvars, fs, whist,
                    last, env_fault, auth, aux >>

\* WBClient.connect after load_state: the browser context is created
StoreConnect ==
    /\ store.phase = "loaded"
    /\ ~store.loaded.raised
    /\ store' = [store EXCEPT !.context = new_context(store.loaded),
                              !.phase = "connected"]
    /\ UNCHANGED << qvars, shutdown_flag, spc, wvars, dvars, dbvars, fs, whist,
                    last, env_fault, auth, aux >>

\* save_state(state): the file is overwritten with the browser's state
StoreSave(file) ==
    /\ store.phase = "connected"
    /\ file.kind = "json"
    /\ file # store.file
    /\ store' = [store EXCEPT !.file = file, !.phase = "stored", !.loaded = NoState]
    /\ UNCHANGED << qvars, shutdown_flag, spc, wvars, dvars, dbvars, fs, whist,
                    last, env_fault, auth, aux >>

StoreNext ==
    \/ StoreLoad
    \/ StoreConnect
    \/ \E file \in StoredFiles(store.now) : StoreSave(file)

StoreSpec == StoreInit /\ [][StoreNext]_vars

\* ------------------------------------------------------- process_articles
\* A user in state waiting_for_articles has sent a text.
SubInit ==
    /\ QueueInit({[p \in {StaticPath} |-> StaticContent]})
    /\ auth = NoAuth
    /\ store = NoStore
    /\ sav = NoSaver
    /\ pay = NoPay
    /\ dl = NoDl
    /\ \E u \in Users, text \in Texts :
           sub = [NoSub EXCEPT !.pc = "received", !.user = u, !.text = text]

\* Lines 77-136: the balance check, the validation and the acknowledgment
SubCheck ==
    /\ sub.pc = "received"
    /\ sub' = IF balance[sub.user] <= 0
              THEN [sub EXCEPT !.fsm = "cleared", !.reply = "no_funds", !.pc = "done"]
              ELSE IF check_articles(sub.text) # "queued"
              THEN [sub EXCEPT !.reply = check_articles(sub.text), !.pc = "done"]
              ELSE [sub EXCEPT !.articles = parse_articles(sub.text).value,
                               !.queue_size = qsize(task_queue) + 1,
                               !.reply = "queued",
                               !.pc = "acked"]
    /\ UNCHANGED << core, auth, store, pipe, sav, pay, dl >>

\* Lines 138-166: the report record, the sticker, the task and add_task
SubEnqueue(report_ok, with_sticker) ==
    /\ sub.pc = "acked"
    /\ IF ~(CreateKeywords \subseteq CreateParameters)
       THEN /\ sub' = [sub EXCEPT !.report = report_ok, !.sticker = with_sticker,
                                  !.raised = CreateTypeError, !.pc = "done"]
            /\ UNCHANGED << qvars, task_log >>
       ELSE /\ LET id == next_id + 1
                   task == ReportTask_create(id, sub.user, sub.user,
                                             IF with_sticker THEN id ELSE 0)
               IN /\ task_queue' = add_task(task_queue, task)
                  /\ unfinished' = unfinished + 1
                  /\ next_id' = id
                  /\ task_log' = Append(task_log, id)
            /\ sub' = [sub EXCEPT !.report = report_ok, !.sticker = with_sticker,
                                  !.enqueued = TRUE, !.fsm = "cleared", !.pc = "done"]
            /\ UNCHANGED result_queue
    /\ UNCHANGED << shutdown_flag, spc, wvars, dvars, dbvars, fs, taken_log,
                    result_log, mode_log, last, env_fault, auth, store, pipe, sav,
                    pay, dl >>

SubNext ==
    \/ SubCheck
    \/ \E report_ok, with_sticker \in BOOLEAN : SubEnqueue(report_ok, with_sticker)

SubSpec == SubInit /\ [][SubNext]_vars

\* ----------------------------------- queue_worker with a connected client
\* The worker in real mode beside the login flow: main.py as setup() would
\* run it with the WBClient construction in place (auth.client), and as it
\* stands (no client).
PipeInit ==
    /\ QueueInit({[p \in {StaticPath} |-> StaticContent]})
    /\ wb_use_mock = FALSE
    /\ store = NoStore
    /\ sav = NoSaver
    /\ pay = NoPay
    /\ dl = NoDl
    /\ sub = NoSub
    /\ \E client \in BOOLEAN :
           auth = [NoAuth EXCEPT !.client = client, !.bot = client]

\* wait_for(get_task()) returns a task and use_mock is false:
\* process_report_real is awaited
PipeGetTask ==
    /\ wpc = "get_task"
    /\ task_queue # << >>
    /\ ~get_wb_use_mock(wb_use_mock, TRUE)
    /\ LET task == get_task(task_queue).item
           p == pipe_start(auth.client)
       IN /\ task_queue' = get_task(task_queue).rest
          /\ taken_log' = Append(taken_log, task.task_id)
          /\ mode_log' = [mode_log EXCEPT ![task.task_id] = "real"]
          /\ pipe' = p
          /\ IF p.stage = 0
             THEN WorkerFinish(task, p.outcome)
             ELSE /\ wtask' = task
                  /\ wpc' = "real"
                  /\ UNCHANGED << result_queue, result_log, unfinished >>
    /\ UNCHANGED << auth, store, sub, sav, pay, dl, next_id, shutdown_flag, spc, dvars,
                    dbvars, fs, task_log, last, env_fault >>

\* The awaited stage returns or raises; when process_report_real is left
\* the iteration runs to its end
PipeStage(ok) ==
    /\ wpc = "real"
    /\ LET p == stage_returns(pipe, ok)
       IN /\ pipe' = p
          /\ IF p.stage = 0
             THEN WorkerFinish(wtask, p.outcome)
             ELSE UNCHANGED << wvars, result_queue, result_log, unfinished >>
    /\ UNCHANGED << auth, store, sub, sav, pay, dl, task_queue, next_id, shutdown_flag,
                    spc, dvars, dbvars, fs, task_log, taken_log, mode_log, last,
                    env_fault >>

PipeNext ==
    \/ Producer
    \/ PipeGetTask
    \/ \E ok \in BOOLEAN : PipeStage(ok)
    \/ \E needs_auth, form_ok \in BOOLEAN : AuthStart(needs_auth, form_ok)
    \/ \E ok \in BOOLEAN : AuthNotify(ok)
    \/ AuthCodeReceived
    \/ AuthTimeout
    \/ \E digits_ok \in BOOLEAN, url1, url2 \in {"target", "auth", "other"} :
          AuthEnterCode(digits_ok, url1, url2)
    \/ \E sender \in Senders, text \in Codes : HandleAuthCode(sender, text)

PipeSpec == PipeInit /\ [][PipeNext]_vars

\* ------------------------------------- periodic_state_saver, shutdown()
\* The saver and the end of shutdown() beside the login flow, with the
\* queues idle: the client as setup() would connect it (a session file may
\* be stored), or no client as main.py stands.
SaveInit ==
    /\ QueueInit({[p \in {StaticPath} |-> StaticContent]})
    /\ balance = [u \in Users |-> 0]
    /\ store = NoStore
    /\ sub = NoSub
    /\ \E client \in BOOLEAN, stored \in {"none", "valid"} :
           /\ auth = [NoAuth EXCEPT !.client = client, !.bot = client]
           /\ sav = [NoSaver EXCEPT
                        !.browser = IF client THEN "connected" ELSE "none",
                        !.stored = IF client THEN stored ELSE "none"]
    /\ pay = NoPay
    /\ dl = NoDl

\* asyncio.sleep(interval) returns: without a client the save is skipped and
\* the iteration ends; with one save_current_state awaits storage_state()
SaverTick ==
    /\ sav.pc = "sleep"
    /\ sav.ticks < MaxTicks
    /\ sav' = IF auth.client
              THEN [sav EXCEPT !.ticks = @ + 1, !.pc = "saving",
                               !.snap = ContextStatus(auth)]
              ELSE [sav EXCEPT !.ticks = @ + 1, !.pc = SaverLoop(shutdown_flag)]
    /\ UNCHANGED << core, auth, store, sub, pipe, pay, dl >>

\* storage_state() returns and save_state writes the file, or one of them
\* raises and the exception is logged; the iteration ends
SaverSave(ok) ==
    /\ sav.pc = "saving"
    /\ sav' = [save_current_state(sav, "saver", sav.snap, ok) EXCEPT
                  !.attempts = Append(@, ok),
                  !.pc = SaverAfterSave(ok, shutdown_flag)]
    /\ UNCHANGED << core, auth, store, sub, pipe, pay, dl >>

\* shutdown() after the worker and the result processor: the auth-check
\* task has ended, by itself or cancelled when wait_for ran out
TailAwaitAuth ==
    /\ spc = "done"
    /\ sav.tail = "none"
    /\ auth.pc \in {"done", "failed", "cancelled"}
    /\ sav' = [sav EXCEPT !.tail = "await_saver"]
    /\ UNCHANGED << core, auth, store, sub, pipe, pay, dl >>

\* wait_for(state_saver_task, 5.0): the saver has left its loop, or it is
\* cancelled where it is suspended (CancelledError: break)
TailAwaitSaver ==
    /\ sav.tail = "await_saver"
    /\ sav' = [sav EXCEPT !.tail = "final_save",
                          !.cancelled = (sav.pc # "stopped"),
                          !.pc = "stopped"]
    /\ UNCHANGED << core, auth, store, sub, pipe, pay, dl >>

\* Faulty variant: the final save is attempted in mock mode too.
TailFinalSave_InMockMode(db_ok, ok) ==
    /\ sav.tail = "final_save"
    /\ LET v == [sav EXCEPT !.tail = "disconnect",
                            !.use_mock = get_wb_use_mock(wb_use_mock, db_ok)]
       IN sav' = IF auth.client
                 THEN [save_current_state(v, "shutdown", ContextStatus(auth), ok)
                          EXCEPT !.finals = Append(@, ok)]
                 ELSE v
    /\ UNCHANGED << core, auth, store, sub, pipe, pay, dl >>

\* Lines 419-426: the flag is read, and with a client and the flag read as
\* off one save is attempted; what it raises is logged
TailFinalSave(db_ok, ok) ==
    /\ sav.tail = "final_save"
    /\ LET use_mock == get_wb_use_mock(wb_use_mock, db_ok)
           v == [sav EXCEPT !.tail = "disconnect", !.use_mock = use_mock]
       IN sav' = IF auth.client /\ ~use_mock
                 THEN [save_current_state(v, "shutdown", ContextStatus(auth), ok)
                          EXCEPT !.finals = Append(@, ok)]
                 ELSE v
    /\ UNCHANGED << core, auth, store, sub, pipe, pay, dl >>

\* Lines 428-432: the browser is closed when there is a client; the rest
\* closes the database client and the bot session
TailDisconnect ==
    /\ sav.tail = "disconnect"
    /\ sav' = [sav EXCEPT !.tail = "complete",
                          !.browser = IF auth.client THEN "closed" ELSE @]
    /\ UNCHANGED << core, auth, store, sub, pipe, pay, dl >>

Saver ==
    \/ SaverTick
    \/ \E ok \in BOOLEAN : SaverSave(ok)

ShutdownTail ==
    \/ TailAwaitAuth
    \/ TailAwaitSaver
    \/ \E db_ok, ok \in BOOLEAN : TailFinalSave(db_ok, ok)
    \/ TailDisconnect

SaveNext ==
    \/ Saver
    \/ ShutdownTail
    \/ \E needs_auth, form_ok \in BOOLEAN : AuthStart(needs_auth, form_ok)
    \/ \E ok \in BOOLEAN : AuthNotify(ok)
    \/ AuthCodeReceived
    \/ AuthTimeout
    \/ \E digits_ok \in BOOLEAN, url1, url2 \in {"target", "auth", "other"} :
          AuthEnterCode(digits_ok, url1, url2)
    \/ AuthCancel
    \/ \E text \in Codes : HandleAuthCode(admin_telegram_id, text)
    \/ WorkerTimeout
    \/ DispTimeout
    \/ ShutdownSteps

SaveSpec == SaveInit /\ [][SaveNext]_vars

\* ------------------------------------------------------- the payment webhook
\* The webhook server and the bot run on one event loop.  A payment row in
\* status PENDING exists for the invoice; its option gives between 1 and
\* MaxBalance reports.  The same payment.succeeded notification arrives up
\* to MaxCalls times.
PayInit ==
    /\ QueueInit({[p \in {StaticPath} |-> StaticContent]})
    /\ wb_use_mock
    /\ auth = NoAuth
    /\ store = NoStore
    /\ sub = NoSub
    /\ sav = NoSaver
    /\ dl = NoDl
    /\ \E bot \in BOOLEAN, u \in Users, amount \in 1..MaxBalance :
           pay = [NoPay EXCEPT !.bot = bot, !.user_id = u, !.amount = amount,
                               !.start = balance[u]]

\* complete_payment up to its first suspension: get_payment_by_external_id
\* returns the row or None (lines 186-192); with a bot the call awaits
\* send_sticker (203-209), without one it runs on to its return.
PayBegin(c, found, price_ok, status_ok, balance_ok) ==
    /\ pay.calls[c].pc = "idle"
    /\ LET call == [pay.calls[c] EXCEPT !.seen = pay.status]
           p == [pay EXCEPT !.calls[c] = call]
           r == complete_payment(p, balance, c, price_ok, status_ok, balance_ok)
       IN IF ~found
          THEN /\ pay' = [pay EXCEPT !.calls[c] = [@ EXCEPT !.pc = "done", !.ret = "false"]]
               /\ UNCHANGED balance
          ELSE IF pay.bot
          THEN /\ pay' = [p EXCEPT !.calls[c].pc = "sticker"]
               /\ UNCHANGED balance
          ELSE /\ pay' = [p EXCEPT !.status = r.status, !.calls[c] = r.call]
               /\ balance' = r.bal
    /\ UNCHANGED << auth, store, sub, pipe, sav, dl, qvars, shutdown_flag, spc,
                    wvars, dvars, wb_use_mock, fs, whist, last, env_fault >>

\* send_sticker has returned or raised (the exception is logged): the call
\* runs from the price lookup to its return
PayResume(c, price_ok, status_ok, balance_ok) ==
    /\ pay.calls[c].pc = "sticker"
    /\ LET r == complete_payment(pay, balance, c, price_ok, status_ok, balance_ok)
       IN /\ pay' = [pay EXCEPT !.status = r.status, !.calls[c] = r.call]
          /\ balance' = r.bal
    /\ UNCHANGED << auth, store, sub, pipe, sav, dl, qvars, shutdown_flag, spc,
                    wvars, dvars, wb_use_mock, fs, whist, last, env_fault >>

PayNext ==
    \/ \E c \in Calls, found, price_ok, status_ok, balance_ok \in BOOLEAN :
          PayBegin(c, found, price_ok, status_ok, balance_ok)
    \/ \E c \in Calls, price_ok, status_ok, balance_ok \in BOOLEAN :
          PayResume(c, price_ok, status_ok, balance_ok)

PaySpec == PayInit /\ [][PayNext]_vars

\* ------------------------------------------------------- the download stage
\* download_documents(unique_id, expected_count) on a connected page.  The
\* list shows up to MaxExports completed exports; each download the site
\* serves is named for the job's id, a period and a segment.
UniqueIds == {7, 12}
Periods == { <<"W">>, <<"1", ".", "2">> }
Segments == { <<"A">>, <<"B">> }

DlInit ==
    /\ QueueInit({[p \in {StaticPath} |-> StaticContent]})
    /\ balance = [u \in Users |-> 0]
    /\ wb_use_mock
    /\ auth = NoAuth
    /\ store = NoStore
    /\ sub = NoSub
    /\ sav = NoSaver
    /\ pay = NoPay
    /\ \E id \in UniqueIds, n, b \in 0..MaxExports :
           dl = [NoDl EXCEPT !.pc = "list", !.unique_id = id,
                             !.expected_count = n, !.buttons_count = b]

dlframe == << core, auth, store, sub, pipe, sav, pay >>

\* Lines 493-529: the unique folder is made anew, the list is opened and the
\* first completed export is awaited; a wait that runs out leaves the stage
DlOpenList(ok) ==
    /\ dl.pc = "list"
    /\ dl' = IF ok /\ dl.buttons_count > 0
             THEN [dl EXCEPT !.pc = "loop", !.folder = TRUE]
             ELSE [dl EXCEPT !.pc = "failed", !.folder = TRUE, !.error = ListTimeout]
    /\ UNCHANGED dlframe

\* Lines 541-580, one iteration: the file is saved under the name the site
\* suggests and its path recorded, or a step raises and is logged
DlDownload(ok, period, segment) ==
    /\ dl.pc = "loop"
    /\ dl.idx < files_to_download(dl.buttons_count, dl.expected_count)
    /\ LET download_path == path_join(unique_folder(dl.unique_id),
                                      ExportName(dl.unique_id, period, segment))
           saved == ok /\ dl.idx < dl.buttons_count
       IN dl' = IF saved
                THEN [dl EXCEPT !.idx = @ + 1,
                                !.outcomes = Append(@, TRUE),
                                !.sources = Append(@, [period |-> period, segment |-> segment]),
                                !.downloaded_files = Append(@, download_path),
                                !.files = @ \cup {download_path}]
                ELSE [dl EXCEPT !.idx = @ + 1, !.outcomes = Append(@, FALSE)]
    /\ UNCHANGED dlframe

\* Lines 584-596 with _merge_zip_archives: with a file downloaded the
\* archives are merged, each source is unlinked (a failure is logged), the
\* unique folder is removed with what is left in it and the merged path is
\* returned; with none the stage raises
DlFinish(unlink_ok) ==
    /\ dl.pc = "loop"
    /\ dl.idx >= files_to_download(dl.buttons_count, dl.expected_count)
    /\ dl' = IF dl.downloaded_files # << >>
             THEN [dl EXCEPT !.pc = "done",
                             !.merged = merge_zip_archives(dl.downloaded_files, dl.unique_id),
                             !.left = IF unlink_ok THEN {} ELSE dl.files,
                             !.files = {},
                             !.folder = FALSE,
                             !.result = merged_zip_path(dl.unique_id)]
             ELSE [dl EXCEPT !.pc = "failed", !.error = NoFilesError]
    /\ UNCHANGED dlframe

DlNext ==
    \/ \E ok \in BOOLEAN : DlOpenList(ok)
    \/ \E ok \in BOOLEAN, period \in Periods, segment \in Segments :
          DlDownload(ok, period, segment)
    \/ \E unlink_ok \in BOOLEAN : DlFinish(unlink_ok)

DlSpec == DlInit /\ [][DlNext]_vars

\* The whole of shutdown() with the four tasks start() creates, in the
\* program as setup() leaves it (wb_client is None): the queue worker and
\* the result processor with their producers, the auth check, which sleeps
\* two seconds and returns, and the saver, which sleeps its interval and
\* skips the save.  The user has one paid report, the static file is in
\* place and every submission shows its loading sticker.  A step of a loop
\* suspended in a call that returns is eventually taken, and so are the
\* steps of shutdown(), whose waits for the auth check and the saver are
\* bounded by wait_for(..., 5.0).
ShutInit ==
    /\ QueueInit({[p \in {StaticPath} |-> StaticContent]})
    /\ balance = [u \in Users |-> 1]
    /\ auth = NoAuth
    /\ store = NoStore
    /\ sub = NoSub
    /\ sav = NoSaver
    /\ pay = NoPay
    /\ dl = NoDl

ShutNext ==
    \/ \E u \in Users : SubmitTask(u, TRUE)
    \/ Worker
    \/ Dispatcher
    \/ ShutdownSteps
    \/ \E needs_auth, form_ok \in BOOLEAN : AuthStart(needs_auth, form_ok)
    \/ AuthCancel
    \/ SaverTick
    \/ ShutdownTail

ShutFairSpec ==
    /\ ShutInit /\ [][ShutNext]_vars
    /\ WF_vars(Worker)
    /\ WF_vars(Dispatcher)
    /\ WF_vars(ShutdownAwaitWorker \/ ShutdownAwaitProcessor)
    /\ WF_vars(AuthCancel)
    /\ WF_vars(ShutdownTail)

TypeOK ==
    /\ wpc \in {"get_task", "mock", "real", "stopped"}
    /\ dpc \in {"get_result", "delete", "sending", "balance_msg", "error_msg",
                "stopped"}
    /\ spc \in {"running", "await_worker", "await_processor", "done"}
    /\ balance \in [Users -> 0..MaxBalance]
    /\ unfinished = Len(task_queue) + (IF wtask = NoTask THEN 0 ELSE 1)
    /\ next_id \in 0..MaxTasks

\* ================================================================ claims
Ids(log) == {log[i] : i \in 1..Len(log)}
ResultsOf(t) == {i \in 1..Len(result_log) : result_log[i].task_id = t}
Position(log, t) == CHOOSE i \in 1..Len(log) : log[i] = t
WorkerBusy == wpc = "mock"

\* C1: the Results enqueued so far are, one for one and in order, those of the
\* jobs dequeued so far; only the job the worker is still running has none
\* yet, so a job never has zero Results when the next one is dequeued, and
\* never two.
C1_OneResultPerDequeuedJob ==
    /\ Len(result_log) = Len(taken_log) - (IF WorkerBusy THEN 1 ELSE 0)
    /\ \A i \in 1..Len(result_log) : result_log[i].task_id = taken_log[i]
    /\ \A i, j \in 1..Len(taken_log) : taken_log[i] = taken_log[j] => i = j
    /\ WorkerBusy => wtask.task_id = taken_log[Len(taken_log)]

\* C1 witness: the worker has produced a success Result (mock pipeline) and a
\* failure Result (the real pipeline raised) and is between two jobs.
C1_Witness ==
    /\ ~WorkerBusy
    /\ \E i, j \in 1..Len(result_log) :
          /\ result_log[i].success /\ mode_log[result_log[i].task_id] = "mock"
          /\ ~result_log[j].success /\ mode_log[result_log[j].task_id] = "real"

\* C2 as stated, in the form a finite run refutes: once the worker has
\* stopped no Result is produced any more, so every accepted job must
\* already have its one Result.
C2_Original ==
    wpc = "stopped" => \A t \in Ids(task_log) : Cardinality(ResultsOf(t)) = 1

\* C2 amended: no job ever has two Results; every job the worker dequeues
\* eventually has exactly one; every accepted job eventually has exactly one
\* unless shutdown is requested first.
C2_ResultUnlessShutdown ==
    /\ [](\A t \in TaskIds : Cardinality(ResultsOf(t)) <= 1)
    /\ \A t \in TaskIds :
          (t \in Ids(taken_log)) ~> (Cardinality(ResultsOf(t)) = 1)
    /\ \A t \in TaskIds :
          (t \in Ids(task_log)) ~> (Cardinality(ResultsOf(t)) = 1 \/ shutdown_flag)

\* C2 witness: a job was left on the inbound channel by a worker that stopped
\* at shutdown, and another job got its Result.
C2_Witness ==
    /\ wpc = "stopped"
    /\ task_queue # << >>
    /\ result_log # << >>

\* C3: Results are enqueued in the order their jobs were submitted.
C3_ResultOrderIsSubmissionOrder ==
    \A i, j \in 1..Len(result_log) :
        i < j => Position(task_log, result_log[i].task_id)
                   < Position(task_log, result_log[j].task_id)

\* C3 witness: two jobs waited on the inbound channel together and both have
\* their Result.
C3_Witness ==
    /\ Len(result_log) >= 2
    /\ Len(task_log) >= 2

\* C4: a job whose pipeline raised has a failure Result carrying the
\* exception text; the worker stops only on the shutdown flag; and after the
\* n-th job failed, a job submitted after it is dequeued and gets its own
\* Result (unless shutdown is requested before the worker's next loop check).
C4_FailureIsContained ==
    /\ [](\A i \in 1..Len(result_log) :
             mode_log[result_log[i].task_id] = "real" =>
                 /\ ~result_log[i].success
                 /\ result_log[i].error = NoneTypeError
                 /\ result_log[i].file_path = None)
    /\ [](wpc = "stopped" => shutdown_flag)
    /\ \A n \in 1..MaxTasks :
          (Len(result_log) >= n /\ ~result_log[n].success /\ Len(task_log) > n)
              ~> (Len(result_log) > n \/ shutdown_flag)

\* C4 witness: the first job failed and the second has been processed.
C4_Witness ==
    /\ Len(result_log) >= 2
    /\ ~result_log[1].success
    /\ result_log[1].error = NoneTypeError

\* The Result the dispatcher took last, as the worker enqueued it.
LastResult ==
    result_log[CHOOSE i \in 1..Len(result_log) : result_log[i].task_id = last.task_id]

\* C5 as stated: whenever the dispatcher has delivered an artifact, the call
\* update_balance(user, -1) took exactly one unit off the stored balance, and
\* the balance message states the stored balance after it.
C5_Original ==
    last.charged =>
        /\ last.after = last.before - 1
        /\ last.message = "balance" => last.reported = last.after

\* C6 as stated: when payments credited k units while a delivered Result was
\* being dispatched, the stored balance at the end of the dispatch is the
\* balance at its start + k - 1.
C6_Original ==
    (last.done /\ last.charged /\ last.credited > 0) =>
        last.final = last.start + last.credited - 1

\* C7: for a failure Result the dispatcher sends the Result's error text and
\* no document and calls no balance update; none of its steps on a failure
\* Result changes the stored balance or the files.
C7_FailureDispatch ==
    /\ [](last.done /\ ~LastResult.success =>
             /\ last.message = "error"
             /\ last.text = LastResult.error
             /\ last.document = "none"
             /\ ~last.charged)
    /\ [][ ( /\ dpc' # dpc
             /\ \/ dres.task_id # 0 /\ ~dres.success
                \/ dres'.task_id # 0 /\ ~dres'.success )
           => (balance' = balance /\ fs' = fs) ]_vars

\* C7 witness: the dispatcher is through with a failure Result of a user
\* whose balance is positive.
C7_Witness ==
    /\ last.done
    /\ last.message = "error"
    /\ last.text = NoneTypeError
    /\ last.final > 0

\* C8 as stated: a success Result whose file is missing is handled as a
\* failure: no deduction, and the failure message is sent to the chat.
C8_Original ==
    (last.done /\ last.missing) => (~last.charged /\ last.message = "error")

\* C9 as stated: no success Result finds its artifact file missing, and the
\* file it is about to send holds the job's output.
C9_Original ==
    /\ ~last.missing
    /\ dpc = "sending" => fs[dres.file_path] = StaticContent

\* C10 as stated, for runs in which no external call fails: a job run by the
\* mock pipeline has a success Result naming the static file, the dispatcher
\* delivers that file and then reports the balance one unit lower.
C10_Original ==
    (last.done /\ mode_log[last.task_id] = "mock" /\ ~env_fault) =>
        /\ LastResult.success
        /\ LastResult.file_path = StaticPath
        /\ last.document = StaticContent
        /\ last.message = "balance"
        /\ last.reported = last.before - 1

\* Number of Results the dispatcher has taken off the result channel.
Dequeued == Len(result_log) - Len(result_queue)

\* C11: when a Result names a processing indicator, delete_message has been
\* attempted (it succeeded or failed) before the document or the final message
\* is sent; and a failed removal leaves the dispatch going: it is at a send,
\* or ended with a message sent (or with the missing-file exception).
C11_IndicatorRemovedFirst ==
    /\ ( /\ last.task_id # 0
         /\ LastResult.loading_message_id # 0
         /\ \/ dpc \in {"sending", "balance_msg", "error_msg"}
            \/ last.document # "none"
            \/ last.message # "none" )
       => last.sticker \in {"deleted", "kept"}
    /\ (last.sticker = "kept" /\ ~last.done)
       => dpc \in {"sending", "balance_msg", "error_msg"}
    /\ (last.sticker = "kept" /\ last.done /\ ~last.missing)
       => last.message \in {"balance", "error"}

\* C11 witness: the removal failed and the artifact and the balance message
\* were sent all the same.
C11_Witness ==
    /\ last.done
    /\ last.sticker = "kept"
    /\ last.document = StaticContent
    /\ last.message = "balance"

\* C12: the Results still on the channel are the tail of the Results ever
\* enqueued and the dispatcher's current Result is the one right before that
\* tail, so no Result is taken twice or put back; the dispatcher stops only on
\* the shutdown flag; after the missing-file exception the iteration is over;
\* and the Result enqueued after one that raised is taken (unless shutdown is
\* requested).
C12_ExceptionIsContained ==
    /\ [](/\ Dequeued \in 0..Len(result_log)
          /\ result_queue = SubSeq(result_log, Dequeued + 1, Len(result_log))
          /\ last.task_id = IF Dequeued = 0 THEN 0
                            ELSE result_log[Dequeued].task_id)
    /\ [](dpc = "stopped" => shutdown_flag)
    /\ [](last.missing => (last.done /\ dres = NoResult
                             /\ dpc \in {"get_result", "stopped"}))
    /\ \A n \in 1..MaxTasks :
          (last.missing /\ Dequeued = n /\ Len(result_log) > n)
              ~> (Dequeued > n \/ shutdown_flag)

\* C12 witness: the first Result raised (a success Result whose file was
\* missing: nothing was deducted although no call failed) and the second
\* Result has been processed to its end.
C12_Witness ==
    /\ Dequeued = 2
    /\ last.done
    /\ result_log[1].success
    /\ fs[result_log[1].file_path] = Absent
    /\ ~env_fault
    /\ balance[result_log[1].user_id] = 1

\* C13 as stated, its shutdown part: when shutdown() has awaited both tasks,
\* no Result is left on the result channel.
C13_Original ==
    spc = "done" => result_queue = << >>

\* C14 as stated: every save_state of the login flow happened with the page
\* on the target resource.
C14_Original ==
    \A i \in 1..Len(auth.saved) : auth.saved[i] = "target"

\* The call _request_code_via_telegram is in progress
InCodeRequest == auth.pc \in {"notify", "wait_code"}

\* A step of handle_auth_code
HandlerStep == auth'.msgs = auth.msgs + 1

C16_NoRequestIsNoOp ==
    [][ (HandlerStep /\ ~HasPendingRequest(auth)) =>
          /\ auth'.pending = auth.pending
          /\ auth'.futures = auth.futures
          /\ auth'.accepted = auth.accepted
          /\ auth'.pc = auth.pc /\ auth'.code = auth.code
          /\ auth'.error = auth.error
          /\ ~auth'.raised ]_vars

\* C16 witness: the admin's code arrived at a connected client with an empty
\* slot and was answered with "no active request".
C16_Witness ==
    /\ auth.client
    /\ auth.sender = admin_telegram_id
    /\ auth.reply = "no_request"
    /\ auth.pending = 0
    /\ auth.accepted = << >>

\* C17: set_result is called at most once per request and never on a resolved
\* Future; a resolved Future keeps its result; the code the waiting flow
\* receives is the first one accepted.
C17_FirstCodeWins ==
    /\ [](Len(auth.accepted) <= 1 /\ ~auth.raised)
    /\ [](\A i \in 1..Len(auth.futures) :
              auth.futures[i].state = "done" => auth.futures[i].result = auth.accepted[1])
    /\ []((auth.bot /\ auth.pc \in {"enter_code", "done"} /\ auth.accepted # << >>)
              => auth.code = auth.accepted[1])
    /\ [][ \A i \in 1..Len(auth.futures) :
              auth.futures[i].state = "done" =>
                  (i <= Len(auth'.futures) /\ auth'.futures[i] = auth.futures[i]) ]_vars

\* C17 witness: the admin sent two different codes for one request; the
\* second was answered with "no active request" and the flow went on with
\* the first.
C17_Witness ==
    /\ Len(auth.accepted) = 1
    /\ auth.sender = admin_telegram_id
    /\ auth.reply = "no_request"
    /\ auth.text # auth.accepted[1]
    /\ auth.pc = "enter_code"
    /\ auth.code = auth.accepted[1]

\* The Futures that are unresolved
Unresolved(a) == {i \in 1..Len(a.futures) : a.futures[i].state = "pending"}

\* C18: at most one Future is unresolved at any time, the slot holds it while
\* the flow awaits it, and a Future is created only when no earlier one is
\* unresolved.
C18_OnePendingRequest ==
    /\ [](Cardinality(Unresolved(auth)) <= 1)
    /\ [](auth.pc = "wait_code" => auth.pending = Len(auth.futures))
    /\ [][Len(auth'.futures) > Len(auth.futures) => Unresolved(auth) = {}]_vars

\* C18 witness: the flow awaits its unresolved Future.
C18_Witness ==
    /\ auth.pc = "wait_code"
    /\ HasPendingRequest(auth)

\* C19: a code message of a sender other than the admin changes neither the
\* slot nor any Future and is never accepted.
C19_OnlyAdminResolves ==
    [][ (HandlerStep /\ auth'.sender # admin_telegram_id) =>
          /\ auth'.pending = auth.pending
          /\ auth'.futures = auth.futures
          /\ auth'.accepted = auth.accepted
          /\ auth'.reply = "none" ]_vars

\* C19 witness: a stranger's code arrived while the flow was waiting for the
\* admin's, and the request is still pending.
C19_Witness ==
    /\ auth.sender = "stranger"
    /\ auth.msgs > 0
    /\ auth.pc = "wait_code"
    /\ HasPendingRequest(auth)

\* The critical cookies of a stored session
CriticalCookies(file) ==
    {file.cookies[i] : i \in {k \in 1..Len(file.cookies) :
                                 file.cookies[k].name \in {"wbx-refresh", "wbx-validation-key"}}}

\* C20 as stated: load_state returns None whenever a critical cookie of the
\* stored session has an expiry epoch e (a positive number) with
\* e <= now + 3600.
C20_Original ==
    ( /\ store.phase = "loaded"
      /\ store.file.kind = "json"
      /\ \E c \in CriticalCookies(store.file) :
            /\ DictGet(c, "expires", 0) > 0
            /\ DictGet(c, "expires", 0) <= store.now + safety_margin )
    => ~store.loaded.some

\* The refresh token of the stored file, as _is_state_valid reads it.
RefreshToken(file) ==
    DictGet(FoundCookie(file.cookies, "wbx-refresh"), "value", EmptyToken)

\* load_state has returned for the file on disk.
HasLoaded == store.phase \in {"loaded", "connected"}

\* C21: when the stored cookie list lacks wbx-refresh or wbx-validation-key,
\* load_state returns None, whatever other cookies the list holds.
C21_MissingCriticalCookieIsNone ==
    ( /\ HasLoaded
      /\ store.file.kind = "json"
      /\ \E name \in {"wbx-refresh", "wbx-validation-key"} :
             ~HasCookie(store.file.cookies, name) )
    => ~store.loaded.some

\* A list with a live wbx-refresh and another cookie, but no
\* wbx-validation-key, was loaded and gave None.
C21_Witness ==
    /\ HasLoaded
    /\ store.file.kind = "json"
    /\ HasCookie(store.file.cookies, "session")
    /\ HasCookie(store.file.cookies, "wbx-refresh")
    /\ ~CookieExpired(FoundCookie(store.file.cookies, "wbx-refresh"), store.now)
    /\ validate_jwt(RefreshToken(store.file), store.now)
    /\ ~HasCookie(store.file.cookies, "wbx-validation-key")
    /\ ~store.loaded.some

\* C22: a state whose refresh token is empty, does not have three parts, or
\* was issued more than 90 days before the current time is not loaded.
C22_StaleOrMalformedTokenRejected ==
    ( /\ HasLoaded
      /\ store.file.kind = "json"
      /\ HasCookie(store.file.cookies, "wbx-refresh")
      /\ \/ RefreshToken(store.file).parts # 3
         \/ /\ RefreshToken(store.file).iat > 0
            /\ store.now - RefreshToken(store.file).iat > 90 * 24 * 3600 )
    => ~store.loaded.some

\* Both critical cookies are present and live, the token is well formed and
\* one second older than 90 days, and the state was rejected.
C22_Witness ==
    /\ HasLoaded
    /\ store.file.kind = "json"
    /\ \A name \in {"wbx-refresh", "wbx-validation-key"} :
           /\ HasCookie(store.file.cookies, name)
           /\ ~CookieExpired(FoundCookie(store.file.cookies, name), store.now)
    /\ RefreshToken(store.file).parts = 3
    /\ RefreshToken(store.file).decodes
    /\ store.now - RefreshToken(store.file).iat = 90 * 24 * 3600 + 1
    /\ ~store.loaded.some

\* C23: load_state never raises; a missing file, a file that is not JSON, a
\* JSON file of another shape and a state that fails validation all give
\* None, and the driver then opens a fresh browser context.
C23_LoadNeverRaises ==
    /\ ~store.loaded.raised
    /\ ( /\ HasLoaded
         /\ \/ store.file.kind \in {"missing", "corrupt", "array", "badshape"}
            \/ ~is_state_valid(store.file, store.now) )
       => ~store.loaded.some
    /\ (store.phase = "connected" /\ ~store.loaded.some)
       => store.context = "fresh"

\* A JSON file whose 'cookies' is not a list of objects was loaded, and the
\* driver went on with a fresh context.
C23_Witness ==
    /\ store.phase = "connected"
    /\ store.file.kind = "badshape"
    /\ ~store.loaded.some
    /\ store.context = "fresh"

\* The items of a submitted text: its pieces without surrounding blanks,
\* the empty ones left out.
Items(text) ==
    SelectSeq([i \in 1..Len(text) |-> Strip(text[i])], LAMBDA a : a # << >>)

NonNumeric(item) == \E i \in 1..Len(item) : item[i] \notin Digits

Rejections == {"no_funds", "no_articles", "bad_format", "too_few", "too_many"}

\* C24: a submission with fewer than 2 or more than 5 items, or with a
\* non-numeric item, ends in the handler with a rejection: no task is
\* created and the task queue is as it was.
C24_InvalidSubmissionRejected ==
    ( /\ sub.pc \in {"acked", "done"}
      /\ \/ Len(Items(sub.text)) < 2
         \/ Len(Items(sub.text)) > 5
         \/ \E i \in 1..Len(Items(sub.text)) : NonNumeric(Items(sub.text)[i]) )
    => /\ sub.pc = "done"
       /\ sub.reply \in Rejections
       /\ ~sub.enqueued
       /\ sub.raised = None
       /\ task_queue = << >>
       /\ unfinished = 0
       /\ next_id = 0

\* A user with credit sent six numeric items and was told there are too
\* many; the queue is empty.
C24_Witness ==
    /\ sub.pc = "done"
    /\ balance[sub.user] > 0
    /\ Len(Items(sub.text)) = 6
    /\ \A i \in 1..6 : ~NonNumeric(Items(sub.text)[i])
    /\ sub.reply = "too_many"
    /\ task_queue = << >>

\* C25: a submission of 2 to 5 numeric items by a user with positive
\* balance puts exactly one task on the queue, and the acknowledgment it
\* was given stands for a task that is on the queue.
C25_Original ==
    ( /\ sub.pc = "done"
      /\ balance[sub.user] > 0
      /\ Len(Items(sub.text)) \in 2..5
      /\ \A i \in 1..Len(Items(sub.text)) : ~NonNumeric(Items(sub.text)[i]) )
    => /\ sub.reply = "queued"
       /\ sub.enqueued
       /\ Len(task_queue) = 1
       /\ unfinished = 1

\* The jobs whose pipeline has been started and has not ended.
Running == Ids(taken_log) \ {result_log[i].task_id : i \in 1..Len(result_log)}

\* C26: shutdown() goes past its wait for the worker only when the worker
\* has ended; the worker ends only with every dequeued job's Result
\* enqueued; a running pipeline is left only by enqueuing its job's Result;
\* and a job in flight when shutdown is requested gets its Result before the
\* worker ends.
C26_ShutdownWaitsForJob ==
    /\ [](spc = "await_processor" => wpc = "stopped")
    /\ [](wpc = "stopped" => \A t \in Ids(taken_log) : Cardinality(ResultsOf(t)) = 1)
    /\ [][(wpc = "mock" /\ wpc' # "mock")
            => /\ Len(result_log') = Len(result_log) + 1
               /\ result_log'[Len(result_log')].task_id = wtask.task_id]_vars
    /\ \A t \in TaskIds :
          (shutdown_flag /\ wpc = "mock" /\ wtask.task_id = t)
              ~> (wpc = "stopped" /\ Cardinality(ResultsOf(t)) = 1)

\* shutdown() is waiting for the worker while a job's pipeline is running.
C26_Witness ==
    /\ shutdown_flag
    /\ spc = "await_worker"
    /\ wpc = "mock"
    /\ wtask # NoTask

\* C27: at most one job's pipeline is in progress, and it is the job the
\* worker holds.
C27_OnePipelineAtATime ==
    /\ Cardinality(Running) <= 1
    /\ Running # {} <=> wpc = "mock"
    /\ wpc = "mock" => Running = {wtask.task_id}

\* A pipeline is running while another job waits on the queue.
C27_Witness ==
    /\ wpc = "mock"
    /\ Running = {wtask.task_id}
    /\ task_queue # << >>

\* C29 as stated: when the code has been entered and the login flow has
\* ended with the page not on the target resource, the flow has failed with
\* the error of an incomplete authorization.
C29_Original ==
    ( /\ auth.pc \in {"done", "failed"}
      /\ auth.code # NoCode
      /\ auth.error \notin {EmptyCodeError, FormError}
      /\ auth.url # "target" )
    => (auth.pc = "failed" /\ auth.error = IncompleteError)

\* The stages process_report_real has begun for the job are the first ones
\* of the fixed order, each at most once.
InStageOrder(trace) ==
    /\ Len(trace) <= Len(Stages)
    /\ \A i \in 1..Len(trace) : trace[i] = Stages[i]

\* C28: the stages of a real-mode job begin in the order compare, process
\* filters, download, each once; the pipeline returns only after all three;
\* a stage that raises is the last one begun, and its exception is the
\* error of the job's failure Result.
C28_StagesInOrder ==
    /\ InStageOrder(pipe.trace)
    /\ pipe.stage # 0 =>
          /\ wpc = "real"
          /\ Len(pipe.trace) = pipe.stage
          /\ pipe.raises = << >>
    /\ pipe.raises # << >> =>
          /\ pipe.raises = <<pipe.trace[Len(pipe.trace)]>>
          /\ pipe.stage = 0
          /\ pipe.outcome = [raised |-> TRUE, value |-> StageError(pipe.raises[1])]
    /\ (pipe.stage = 0 /\ pipe.trace # << >>) =>
          /\ result_log # << >>
          /\ pipe.raises = << >> =>
                /\ pipe.trace = Stages
                /\ result_log[Len(result_log)].success
                /\ result_log[Len(result_log)].file_path = pipe.outcome.value
          /\ pipe.raises # << >> =>
                /\ ~result_log[Len(result_log)].success
                /\ result_log[Len(result_log)].error = StageError(pipe.raises[1])

\* process_filters raised: download_documents was not begun and the job has
\* a failure Result with that exception.
C28_Witness ==
    /\ pipe.stage = 0
    /\ pipe.trace = <<"compare_cards", "process_filters">>
    /\ pipe.raises = <<"process_filters">>
    /\ ~result_log[Len(result_log)].success
    /\ result_log[Len(result_log)].error = StageError("process_filters")

\* C30 as stated: while a stage of a job drives the page, the check
\* ensure_authorized has run to its end.
C30_Original ==
    pipe.stage # 0 => auth.pc \in {"done", "failed"}

\* C31 as stated: no write of the periodic saver or of shutdown() replaces a
\* valid stored session by the state of a context that has not completed
\* login.
C31_Original ==
    \A i \in 1..Len(sav.writes) :
        sav.writes[i].over = "valid" => sav.writes[i].status # "unauthenticated"

\* C32 as stated, for the saver and the login flow: when the login flow
\* writes the session file, the periodic saver is not in the middle of a
\* save of its own.
C32_Original ==
    [][Len(auth'.saved) > Len(auth.saved) => sav.pc # "saving"]_vars

\* C33: the saver leaves its loop only when shutdown has been requested; a
\* save that raised ends the iteration like one that wrote, so the saver
\* sleeps through the next interval; and every interval that ends with a
\* client in place starts a save.
C33_SaveFailureKeepsLoop ==
    /\ [](sav.pc = "stopped" => shutdown_flag)
    /\ [][sav'.attempts = Append(sav.attempts, FALSE)
            => sav'.pc = (IF shutdown_flag THEN "stopped" ELSE "sleep")]_vars
    /\ [][(sav'.ticks = sav.ticks + 1 /\ auth.client) => sav'.pc = "saving"]_vars

\* A save raised, and the save of the next interval wrote the file.
C33_Witness ==
    /\ sav.attempts = <<FALSE, TRUE>>
    /\ sav.writes # << >>
    /\ sav.pc = "sleep"

\* C34: shutdown() attempts at most one final save, exactly one when there
\* is a client and get_wb_use_mock was read as off and none otherwise; the
\* attempt comes when the worker, the result processor and the saver have
\* stopped and the browser is still connected; and the browser is closed
\* whether the save wrote or raised.
C34_OneFinalSave ==
    /\ Len(sav.finals) <= 1
    /\ sav.finals # << >> =>
          /\ wpc = "stopped" /\ dpc = "stopped" /\ sav.pc = "stopped"
          /\ auth.client /\ ~sav.use_mock
    /\ sav.tail = "disconnect" =>
          /\ sav.browser = (IF auth.client THEN "connected" ELSE "none")
          /\ sav.finals # << >> <=> (auth.client /\ ~sav.use_mock)
    /\ sav.tail = "complete" =>
          /\ sav.browser = (IF auth.client THEN "closed" ELSE "none")
          /\ sav.finals # << >> <=> (auth.client /\ ~sav.use_mock)
    /\ sav.tail \notin {"disconnect", "complete"} =>
          (sav.finals = << >> /\ sav.browser # "closed")

\* The one final save raised and the browser was closed all the same.
C34_Witness ==
    /\ sav.tail = "complete"
    /\ auth.client
    /\ ~sav.use_mock
    /\ sav.finals = <<FALSE>>
    /\ sav.browser = "closed"

\* C35: once the shutdown flag is set, shutdown() runs to its end with the
\* worker and the result processor stopped; the worker stops only with a
\* Result enqueued for every job it took and the result processor only with
\* no Result in hand; the saver and the auth check are cancelled only by
\* shutdown(), after the two loops have ended, and at the end of shutdown()
\* neither is running.
C35_ShutdownCompletes ==
    /\ shutdown_flag ~> (sav.tail = "complete" /\ wpc = "stopped" /\ dpc = "stopped")
    /\ [](wpc = "stopped" =>
            /\ shutdown_flag
            /\ wtask = NoTask
            /\ \A t \in Ids(taken_log) : Cardinality(ResultsOf(t)) = 1)
    /\ [](dpc = "stopped" => (shutdown_flag /\ dres = NoResult))
    /\ []((sav.cancelled \/ auth.pc = "cancelled") =>
            (spc = "done" /\ wpc = "stopped" /\ dpc = "stopped"))
    /\ [](sav.tail \in {"final_save", "disconnect", "complete"} =>
            (sav.pc = "stopped" /\ auth.pc \in {"done", "failed", "cancelled"}))

\* shutdown() has ended after jobs were run and delivered, and it had to
\* cancel both the saver and the auth check.
C35_Witness ==
    /\ sav.tail = "complete"
    /\ sav.cancelled
    /\ auth.pc = "cancelled"
    /\ taken_log # << >>
    /\ last.charged

\* C36 as stated, in its consequence for one delivery: between credits the
\* stored balance is the balance at submission less the artifacts delivered
\* since, so an artifact is delivered only to a user whose stored balance
\* still holds a unit to pay for it.
C36_Original ==
    [][(dpc = "sending" /\ dpc' = "balance_msg") => balance[dres.user_id] >= 1]_vars

\* C37 as stated: however many times complete_payment runs for one invoice,
\* one after the other or overlapping, at most one of the calls credits the
\* balance, so the balance never exceeds what it was before plus
\* reports_amount.
C37_Original ==
    /\ Cardinality({c \in Calls : pay.calls[c].credited}) <= 1
    /\ pay.user_id \in Users => balance[pay.user_id] <= pay.start + pay.amount

\* Successful downloads among the attempts made
Saved == {i \in 1..Len(dl.outcomes) : dl.outcomes[i]}
Least(a, b) == IF a <= b THEN a ELSE b

Subfolder(src) == src.period \o <<"-">> \o src.segment

====
